---- MODULE Spec2Model ----
(***************************************************************************)
(* Raw-data validation of vivarium_inputs (validation/raw.py).             *)
(*                                                                         *)
(* The validators are stateless: every call is a function of its           *)
(* arguments and of read-only metadata.  The model keeps the last call     *)
(* (`call`: the operation and its arguments) and what it did (`result`:    *)
(* the exception it raised, if any, and whether it emitted a warning).     *)
(* A table is the set of its rows; a row is a record of its id columns     *)
(* and `vals`, a function from value-column names to values.               *)
(***************************************************************************)
EXTENDS Integers, Sequences, FiniteSets, TLC

VARIABLES call, result

vars == <<call, result>>

(***************************************************************************)
(* Bounds of the model.                                                    *)
(***************************************************************************)
MaxCols == 2      \* longest column list handed to check_columns
NumYears == 4     \* years 1..NumYears
NumAges == 5      \* valid age-group universe 1..NumAges
MaxRows == 2      \* most distinct rows in a table of the restriction checks
Unit == 10        \* a draw value v stands for the number v / Unit
MetaAges == 2     \* restriction bounds of a cause's metadata lie in 1..MetaAges
NumJobs == 2      \* entities requested from the legacy ArtifactBuilder.process
MaxWrites == 2    \* most datasets one loader hands to its writer
MaxRuns == 2      \* _worker calls per (entity type, entity name) pair

(***************************************************************************)
(* Outcomes of a call.                                                     *)
(***************************************************************************)
Ok == [raised |-> "none", warned |-> FALSE]

Warn == [raised |-> "none", warned |-> TRUE]

Raise(e) == [raised |-> e, warned |-> FALSE]

\* Mutant of Then: a warning of r1 ends the sequence as an exception does.
Then_warning_stops(r1, r2) ==
    IF r1.raised # "none" \/ r1.warned THEN r1
    ELSE [raised |-> r2.raised, warned |-> r1.warned \/ r2.warned]

\* r1 then r2: the first exception aborts, warnings accumulate.
Then(r1, r2) ==
    IF r1.raised # "none" THEN r1
    ELSE [raised |-> r2.raised, warned |-> r1.warned \/ r2.warned]

(***************************************************************************)
(* Python helpers.                                                         *)
(***************************************************************************)
ToSet(s) == {s[i] : i \in 1..Len(s)}

SetMin(S) == CHOOSE x \in S : \A y \in S : x <= y

SetMax(S) == CHOOSE x \in S : \A y \in S : x >= y

\* list(S) followed by .sort()
RECURSIVE Sorted(_)
Sorted(S) == IF S = {} THEN <<>> ELSE <<SetMin(S)>> \o Sorted(S \ {SetMin(S)})

\* list.index(x): position of the first occurrence (1-based)
Index(s, x) == SetMin({i \in 1..Len(s) : s[i] = x})

\* Python's proper-subset operator on sets, a < b
ProperSubset(a, b) == a \subseteq b /\ a # b

SeqsUpTo(S, n) == UNION {[1..k -> S] : k \in 0..n}

\* The subsets of S with at most n elements.
RECURSIVE SubsetsUpTo(_, _)
SubsetsUpTo(S, n) ==
    IF n = 0 THEN {{}}
    ELSE LET smaller == SubsetsUpTo(S, n - 1)
         IN  smaller \cup {T \cup {x} : T \in smaller, x \in S}

(***************************************************************************)
(* check_columns                                                           *)
(***************************************************************************)
check_columns(expected_cols, existing_cols) ==
    IF ProperSubset(ToSet(existing_cols), ToSet(expected_cols))
    THEN Raise("DataAbnormalError")
    ELSE IF ProperSubset(ToSet(expected_cols), ToSet(existing_cols))
    THEN Raise("DataAbnormalError")
    ELSE Ok

(***************************************************************************)
(* check_years                                                             *)
(***************************************************************************)
check_years(data, year_type, estimation_years) ==
    LET data_years == {r.year_id : r \in data}
        annual_estimation_years == SetMin(estimation_years)..SetMax(estimation_years)
    IN  IF year_type = "annual"
        THEN IF ProperSubset(data_years, annual_estimation_years)
             THEN Raise("DataAbnormalError")
             ELSE Ok
        ELSE IF year_type = "binned"
        THEN IF ProperSubset(data_years, estimation_years)
             THEN Raise("DataAbnormalError")
             ELSE IF ProperSubset(estimation_years, data_years)
             THEN Raise("DataAbnormalError")
             ELSE Ok
        ELSE IF (data_years = estimation_years) \/ (annual_estimation_years \subseteq data_years)
             THEN Ok
             ELSE Raise("DataAbnormalError")

(***************************************************************************)
(* Age-group universe and restriction ranges.                              *)
(***************************************************************************)
\* An absent restriction bound (Python's None).
None == -1

\* gbd.get_age_group_id(): the valid age-group ids in canonical order.
gbd_get_age_group_id == [i \in 1..NumAges |-> i]

\* Python's s[i:j+1] on 0-based positions, given here as 1-based i..j.
Slice(s, i, j) == IF i > j THEN <<>> ELSE SubSeq(s, i, j)

\* Every id of the canonical ordering from start_id to end_id inclusive;
\* nothing when there is no restriction.
get_restriction_age_ids(start_id, end_id) ==
    IF start_id = None THEN <<>>
    ELSE Slice(gbd_get_age_group_id,
               Index(gbd_get_age_group_id, start_id),
               Index(gbd_get_age_group_id, end_id))

(***************************************************************************)
(* check_age_group_ids                                                     *)
(***************************************************************************)
\* Mutant of _check_continuity: the slice stops one position early.
_check_continuity_short_slice(data_ages, all_ages) ==
    LET all_sorted == Sorted(all_ages)
        data_sorted == Sorted(data_ages)
    IN  IF data_sorted = <<>> THEN Raise("IndexError")
        ELSE IF Slice(all_sorted, Index(all_sorted, data_sorted[1]),
                      Index(all_sorted, data_sorted[Len(data_sorted)]) - 1) # data_sorted
        THEN Raise("DataAbnormalError")
        ELSE Ok

_check_continuity(data_ages, all_ages) ==
    LET all_sorted == Sorted(all_ages)
        data_sorted == Sorted(data_ages)
    IN  IF data_sorted = <<>> THEN Raise("IndexError")
        ELSE IF Slice(all_sorted, Index(all_sorted, data_sorted[1]),
                      Index(all_sorted, data_sorted[Len(data_sorted)])) # data_sorted
        THEN Raise("DataAbnormalError")
        ELSE Ok

check_age_group_ids(data, restriction_start, restriction_end) ==
    LET all_ages == ToSet(gbd_get_age_group_id)
        restriction_ages == ToSet(get_restriction_age_ids(restriction_start, restriction_end))
        data_ages == {r.age_group_id : r \in data}
        invalid_ages == data_ages \ all_ages
    IN  IF invalid_ages # {} THEN Raise("DataAbnormalError")
        ELSE Then(_check_continuity(data_ages, all_ages),
                  IF ProperSubset(data_ages, restriction_ages) THEN Warn
                  ELSE IF restriction_ages # {} /\ ProperSubset(restriction_ages, data_ages) THEN Warn
                  ELSE Ok)

(***************************************************************************)
(* Values and identifiers from vivarium_inputs.globals.                    *)
(***************************************************************************)
\* A missing value (np.nan) and an infinite value (np.inf) of a value column.
NaN == -1000000

Inf == 1000000

\* SEXES
Male == 1

Female == 2

Combined == 3

\* DEMOGRAPHIC_COLUMNS
DEMOGRAPHIC_COLUMNS == <<"location_id", "sex_id", "age_group_id", "year_id">>

\* DRAW_COLUMNS, the fixed-name draw columns (1000 in the source).
DRAW_COLUMNS == <<"draw_0", "draw_1">>

(***************************************************************************)
(* check_data_exist                                                        *)
(***************************************************************************)
\* The value check_data_exist returns with error=False.
check_data_exist(data, zeros_missing, value_columns) ==
    ~ ( \/ data = {}
        \/ \E r \in data : \E c \in ToSet(value_columns) : r.vals[c] = NaN
        \/ (zeros_missing /\ \A r \in data : \A c \in ToSet(value_columns) : r.vals[c] = 0)
        \/ \E r \in data : \E c \in ToSet(value_columns) : r.vals[c] = Inf )

\* check_data_exist with error=True.
check_data_exist_or_raise(data, zeros_missing, value_columns) ==
    IF check_data_exist(data, zeros_missing, value_columns)
    THEN Ok
    ELSE Raise("DataDoesNotExistError")

\* check_data_exist with error=True on a table: `data.empty` is tested first,
\* then data[value_columns] is selected, a KeyError when a value column is
\* not among the table's columns.
check_data_exist_table(data, zeros_missing, value_columns) ==
    IF data.rows = {} THEN Raise("DataDoesNotExistError")
    ELSE IF ~(ToSet(value_columns) \subseteq ToSet(data.columns)) THEN Raise("KeyError")
    ELSE check_data_exist_or_raise(data.rows, zeros_missing, value_columns)

(***************************************************************************)
(* check_sex_restrictions                                                  *)
(***************************************************************************)
\* Mutant of no_sex_restriction_branch: data for one of the two sexes is
\* enough when both ids are present.
no_sex_restriction_branch_either_sex(data, value_columns) ==
    LET OfSex(x) == {r \in data : r.sex_id = x}
    IN  IF {Male, Female} \subseteq {r.sex_id : r \in data}
        THEN IF /\ ~check_data_exist(OfSex(Male), TRUE, value_columns)
                /\ ~check_data_exist(OfSex(Female), TRUE, value_columns)
             THEN Raise("DataAbnormalError")
             ELSE Ok
        ELSE IF ~check_data_exist(OfSex(Combined), TRUE, value_columns)
             THEN Raise("DataAbnormalError")
             ELSE Ok

\* The branch of check_sex_restrictions taken with neither male_only nor
\* female_only: both sexes when both ids are present, else the combined rows.
no_sex_restriction_branch(data, value_columns) ==
    LET OfSex(x) == {r \in data : r.sex_id = x}
    IN  IF {Male, Female} \subseteq {r.sex_id : r \in data}
        THEN IF \/ ~check_data_exist(OfSex(Male), TRUE, value_columns)
                \/ ~check_data_exist(OfSex(Female), TRUE, value_columns)
             THEN Raise("DataAbnormalError")
             ELSE Ok
        ELSE IF ~check_data_exist(OfSex(Combined), TRUE, value_columns)
             THEN Raise("DataAbnormalError")
             ELSE Ok

check_sex_restrictions(data, male_only, female_only, value_columns) ==
    LET sex_ids == {r.sex_id : r \in data}
        OfSex(x) == {r \in data : r.sex_id = x}
        NotOfSex(x) == {r \in data : r.sex_id # x}
        male_part ==
            IF ~male_only THEN Ok
            ELSE IF ~check_data_exist(OfSex(Male), TRUE, value_columns)
            THEN Raise("DataAbnormalError")
            ELSE IF sex_ids # {Male} /\ check_data_exist(NotOfSex(Male), TRUE, value_columns)
            THEN Warn
            ELSE Ok
        female_part ==
            IF ~female_only THEN Ok
            ELSE IF ~check_data_exist(OfSex(Female), TRUE, value_columns)
            THEN Raise("DataAbnormalError")
            ELSE IF sex_ids # {Female} /\ check_data_exist(NotOfSex(Female), TRUE, value_columns)
            THEN Warn
            ELSE Ok
        unrestricted_part ==
            IF male_only \/ female_only THEN Ok
            ELSE no_sex_restriction_branch(data, value_columns)
    IN  Then(male_part, Then(female_part, unrestricted_part))

(***************************************************************************)
(* check_mort_morb_flags                                                   *)
(***************************************************************************)
no_morbidity(r) == r.morbidity = 0

no_mortality(r) == r.mortality = 0

\* Mutant of both_flags_branch: the mixture is reported only when rows
\* lacking morbidity and rows lacking mortality are both present.
both_flags_branch_needs_both(data) ==
    IF (\E r \in data : no_morbidity(r)) /\ (\E r \in data : no_mortality(r))
    THEN Raise("DataAbnormalError")
    ELSE Ok

\* Some row has both flags set: no row may have only one of them.
both_flags_branch(data) ==
    IF (\E r \in data : no_morbidity(r)) \/ (\E r \in data : no_mortality(r))
    THEN Raise("DataAbnormalError")
    ELSE Ok

\* Mutant of single_flag_branch: each kind of row is tested against the
\* restriction of the other measure.
single_flag_branch_swapped(data, yld_only, yll_only) ==
    LET morbidity_any == \E r \in data : ~no_morbidity(r)
        mortality_any == \E r \in data : ~no_mortality(r)
        no_morbidity_all == \A r \in data : no_morbidity(r)
        no_mortality_all == \A r \in data : no_mortality(r)
    IN  IF morbidity_any /\ no_mortality_all /\ ~yll_only
        THEN Raise("DataAbnormalError")
        ELSE IF mortality_any /\ no_morbidity_all /\ ~yld_only
        THEN Raise("DataAbnormalError")
        ELSE IF mortality_any /\ morbidity_any /\ (yld_only \/ yll_only)
        THEN Raise("DataAbnormalError")
        ELSE Ok

\* Every row has exactly one flag set: compare with the cause's restrictions.
single_flag_branch(data, yld_only, yll_only) ==
    LET morbidity_any == \E r \in data : ~no_morbidity(r)
        mortality_any == \E r \in data : ~no_mortality(r)
        no_morbidity_all == \A r \in data : no_morbidity(r)
        no_mortality_all == \A r \in data : no_mortality(r)
    IN  IF morbidity_any /\ no_mortality_all /\ ~yld_only
        THEN Raise("DataAbnormalError")
        ELSE IF mortality_any /\ no_morbidity_all /\ ~yll_only
        THEN Raise("DataAbnormalError")
        ELSE IF mortality_any /\ morbidity_any /\ (yld_only \/ yll_only)
        THEN Raise("DataAbnormalError")
        ELSE Ok

check_mort_morb_flags(data, yld_only, yll_only) ==
    LET valid_morb_mort_values == {0, 1}
    IN  IF ~({r.morbidity : r \in data} \subseteq valid_morb_mort_values)
        THEN Raise("DataAbnormalError")
        ELSE IF ~({r.mortality : r \in data} \subseteq valid_morb_mort_values)
        THEN Raise("DataAbnormalError")
        ELSE IF \E r \in data : no_morbidity(r) /\ no_mortality(r)
        THEN Raise("DataAbnormalError")
        ELSE IF \E r \in data : ~no_morbidity(r) /\ ~no_mortality(r)
        THEN both_flags_branch(data)
        ELSE single_flag_branch(data, yld_only, yll_only)

(***************************************************************************)
(* check_metadata and its per-kind checkers.                               *)
(*                                                                         *)
(* A metadata flag is "True", "False" or "None"; an in_range flag the      *)
(* entity has no slot for is "absent".  entity.flags[measure] holds the    *)
(* {measure}_exists, _in_range, _consistent and _aggregates flags.         *)
(***************************************************************************)
Tri == {"True", "False", "None"}

\* Python truthiness of a flag.
Truthy(x) == x = "True"

\* Mutant of check_exists_in_range: a False flag is rejected like None.
check_exists_in_range_strict(entity, measure) ==
    LET exists == entity.flags[measure].exists
        in_range == entity.flags[measure].in_range
    IN  IF ~Truthy(exists) THEN Raise("InvalidQueryError")
        ELSE IF in_range # "absent" /\ ~Truthy(in_range) THEN Warn
        ELSE Ok

check_exists_in_range(entity, measure) ==
    LET exists == entity.flags[measure].exists
        in_range == entity.flags[measure].in_range
    IN  IF exists = "None" THEN Raise("InvalidQueryError")
        ELSE Then(IF ~Truthy(exists) THEN Warn ELSE Ok,
                  IF in_range # "absent" /\ Truthy(exists) /\ ~Truthy(in_range)
                  THEN Warn ELSE Ok)

\* entity.restrictions.violated is modelled by the measures its entries name.
warn_violated_restrictions(entity, measure) ==
    IF measure \in entity.restrictions.violated THEN Warn ELSE Ok

\* The second index list holds `exists and not in_range`, which is None when
\* the exists flag is None; what numpy does with such a list depends on its
\* version (IndexError, a TypeError while the message is joined, or an empty
\* selection), so the outcome is the caller-independent choice `numpy_outcome`.
check_paf_types(entity, numpy_outcome) ==
    LET yll_exists == entity.population_attributable_fraction_yll_exists
        yld_exists == entity.population_attributable_fraction_yld_exists
        yll_in_range == entity.population_attributable_fraction_yll_in_range
        yld_in_range == entity.population_attributable_fraction_yld_in_range
        missing_pafs == ~Truthy(yll_exists) \/ ~Truthy(yld_exists)
        abnormal_range ==
            \/ Truthy(yll_exists) /\ ~Truthy(yll_in_range)
            \/ Truthy(yld_exists) /\ ~Truthy(yld_in_range)
    IN  Then(IF missing_pafs THEN Warn ELSE Ok,
             IF yll_exists = "None" \/ yld_exists = "None"
             THEN (IF numpy_outcome = "none" THEN Ok ELSE Raise(numpy_outcome))
             ELSE IF abnormal_range THEN Warn ELSE Ok)

check_cause_age_restrictions_sets(entity) ==
    IF entity.restrictions.yld_only \/ entity.restrictions.yll_only THEN Ok
    ELSE LET yll_ages == get_restriction_age_ids(entity.restrictions.yll_age_group_id_start,
                                                 entity.restrictions.yll_age_group_id_end)
             yld_ages == get_restriction_age_ids(entity.restrictions.yld_age_group_id_start,
                                                 entity.restrictions.yld_age_group_id_end)
         IN  IF ProperSubset(ToSet(yld_ages), ToSet(yll_ages))
             THEN Raise("NotImplementedError")
             ELSE Ok

check_sequela_metadata(entity, measure) ==
    IF measure \in {"incidence", "prevalence", "birth_prevalence"}
    THEN check_exists_in_range(entity, measure)
    ELSE IF ~Truthy(entity.healthstate.exists[measure]) THEN Warn ELSE Ok

check_cause_metadata(entity, measure) ==
    IF entity.restrictions.yll_only THEN Raise("NotImplementedError")
    ELSE Then(check_cause_age_restrictions_sets(entity),
         Then(check_exists_in_range(entity, measure),
         Then(warn_violated_restrictions(entity, measure),
              IF measure = "remission" THEN Ok
              ELSE LET consistent == entity.flags[measure].consistent
                       aggregates == entity.flags[measure].aggregates
                   IN  Then(IF consistent = "False" THEN Warn ELSE Ok,
                            IF Truthy(consistent) /\ ~Truthy(aggregates) THEN Warn ELSE Ok))))

check_risk_factor_metadata(entity, measure, numpy_outcome) ==
    IF measure \in {"exposure_distribution_weights", "mediation_factors"} THEN Ok
    ELSE IF entity.distribution = "custom" THEN Raise("NotImplementedError")
    ELSE Then(IF measure = "population_attributable_fraction"
              THEN check_paf_types(entity, numpy_outcome)
              ELSE Then(check_exists_in_range(entity, measure),
                        IF measure = "exposure" /\ entity.exposure_year_type \in {"mix", "incomplete"}
                        THEN Warn ELSE Ok),
              warn_violated_restrictions(entity, measure))

check_etiology_metadata(entity, measure, numpy_outcome) == check_paf_types(entity, numpy_outcome)

check_covariate_metadata(entity, measure) ==
    Then(IF ~Truthy(entity.mean_value_exists) THEN Warn ELSE Ok,
    Then(IF ~Truthy(entity.uncertainty_exists) THEN Warn ELSE Ok,
         IF entity.by_sex_violated \/ entity.by_age_violated THEN Warn ELSE Ok))

check_health_technology_metadata(entity, measure) == IF measure = "cost" THEN Warn ELSE Ok

check_healthcare_entity_metadata(entity, measure) == IF measure = "cost" THEN Warn ELSE Ok

\* Kinds whose checker is `pass`.
NoMetadataKinds == {"coverage_gap", "population", "alternative_risk_factor"}

metadata_checkers ==
    {"sequela", "cause", "risk_factor", "etiology", "covariate", "coverage_gap",
     "health_technology", "healthcare_entity", "population", "alternative_risk_factor"}

\* Mutant of check_metadata: an entity kind without a checker is let through.
check_metadata_unknown_kind_passes(entity, measure, numpy_outcome) ==
    IF entity.kind = "sequela" THEN check_sequela_metadata(entity, measure)
    ELSE IF entity.kind = "cause" THEN check_cause_metadata(entity, measure)
    ELSE IF entity.kind = "risk_factor" THEN check_risk_factor_metadata(entity, measure, numpy_outcome)
    ELSE IF entity.kind = "etiology" THEN check_etiology_metadata(entity, measure, numpy_outcome)
    ELSE IF entity.kind = "covariate" THEN check_covariate_metadata(entity, measure)
    ELSE IF entity.kind = "health_technology" THEN check_health_technology_metadata(entity, measure)
    ELSE IF entity.kind = "healthcare_entity" THEN check_healthcare_entity_metadata(entity, measure)
    ELSE Ok

check_metadata(entity, measure, numpy_outcome) ==
    IF entity.kind \notin metadata_checkers THEN Raise("InvalidQueryError")
    ELSE IF entity.kind = "sequela" THEN check_sequela_metadata(entity, measure)
    ELSE IF entity.kind = "cause" THEN check_cause_metadata(entity, measure)
    ELSE IF entity.kind = "risk_factor" THEN check_risk_factor_metadata(entity, measure, numpy_outcome)
    ELSE IF entity.kind = "etiology" THEN check_etiology_metadata(entity, measure, numpy_outcome)
    ELSE IF entity.kind = "covariate" THEN check_covariate_metadata(entity, measure)
    ELSE IF entity.kind = "health_technology" THEN check_health_technology_metadata(entity, measure)
    ELSE IF entity.kind = "healthcare_entity" THEN check_healthcare_entity_metadata(entity, measure)
    ELSE Ok

(***************************************************************************)
(* Remaining shape checkers and the relative-risk validator.               *)
(***************************************************************************)
MAX_CATEG_REL_RISK == 20

MAX_CONT_REL_RISK == 5

\* METRICS of vivarium_inputs.globals: metric name -> metric_id.
METRICS == [Number |-> 1, Percent |-> 2, Rate |-> 3]

\* str.capitalize() on the metric names the validators pass.
capitalize(name) ==
    IF name = "rate" THEN "Rate" ELSE IF name = "percent" THEN "Percent" ELSE "Number"

check_metric_id(data, expected_metric) ==
    IF {r.metric_id : r \in data} # {METRICS[capitalize(expected_metric)]}
    THEN Raise("DataAbnormalError")
    ELSE Ok

\* gbd.get_location_path_to_global(): location id -> path from the global
\* location down to it (the parsed path_to_top_parent).
gbd_get_location_path_to_global == <<(<<1>>), <<1, 2>>, <<1, 3>>>>

check_location(data, location_id) ==
    LET location_ids == {r.location_id : r \in data}
        path_to_parent == gbd_get_location_path_to_global[location_id]
    IN  IF Cardinality(location_ids) > 1 THEN Raise("DataAbnormalError")
        ELSE IF location_ids = {} THEN Raise("IndexError")
        ELSE IF (CHOOSE l \in location_ids : TRUE) \notin ToSet(path_to_parent)
        THEN Raise("DataAbnormalError")
        ELSE Ok

check_sex_ids(data, male_expected, female_expected, combined_expected) ==
    LET valid_sex_ids == {Male, Female, Combined}
        gbd_sex_ids == (IF male_expected THEN {Male} ELSE {})
                           \cup (IF female_expected THEN {Female} ELSE {})
                           \cup (IF combined_expected THEN {Combined} ELSE {})
        data_sex_ids == {r.sex_id : r \in data}
    IN  IF data_sex_ids \ valid_sex_ids # {} THEN Raise("DataAbnormalError")
        ELSE Then(IF data_sex_ids \ gbd_sex_ids # {} THEN Warn ELSE Ok,
                  IF gbd_sex_ids \ data_sex_ids # {} THEN Warn ELSE Ok)

check_age_restrictions(data, age_group_id_start, age_group_id_end, value_columns, error) ==
    LET expected_gbd_age_ids == ToSet(get_restriction_age_ids(age_group_id_start, age_group_id_end))
        data_ages == {r.age_group_id : r \in data}
        missing_age_groups == expected_gbd_age_ids \ data_ages
        extra_age_groups == data_ages \ expected_gbd_age_ids
        should_be_zero == {r \in data : r.age_group_id \in extra_age_groups}
        in_range == {r \in data : r.age_group_id \in expected_gbd_age_ids}
    IN  Then(IF missing_age_groups = {} THEN Ok
             ELSE IF error THEN Raise("DataAbnormalError") ELSE Warn,
        Then(IF extra_age_groups # {} /\ check_data_exist(should_be_zero, TRUE, value_columns)
             THEN Warn ELSE Ok,
             IF check_data_exist(in_range, TRUE, value_columns) THEN Ok
             ELSE IF error THEN Raise("DataAbnormalError") ELSE Warn))

\* The error class check_value_columns_boundary uses when the caller names none.
DefaultBoundaryError == "DataAbnormalError"

\* Per-row minimum ('lower') or maximum ('upper') of value_columns against
\* boundary_value; raises `error`, or warns when error is "None".
check_value_columns_boundary(data, boundary_value, boundary_type, value_columns, inclusive, error) ==
    LET RowValues(r) == {r.vals[c] : c \in ToSet(value_columns)}
        RowOk(r) ==
            IF boundary_type = "lower"
            THEN (IF inclusive THEN SetMin(RowValues(r)) >= boundary_value
                  ELSE SetMin(RowValues(r)) > boundary_value)
            ELSE (IF inclusive THEN SetMax(RowValues(r)) <= boundary_value
                  ELSE SetMax(RowValues(r)) < boundary_value)
    IN  IF \A r \in data : RowOk(r) THEN Ok
        ELSE IF error = "None" THEN Warn
        ELSE Raise(error)

\* `causes` of gbd_mapping: an unrestricted cause, a yld_only cause, a
\* male_only cause and a yll_only cause, each with its sequelae and
\* etiologies (by id).
causes ==
    {[kind |-> "cause", gbd_id |-> 1, sequelae |-> {11}, etiologies |-> {30},
      restrictions |-> [male_only |-> FALSE, female_only |-> FALSE,
                        yld_only |-> FALSE, yll_only |-> FALSE,
                        yll_age_group_id_start |-> 1, yll_age_group_id_end |-> NumAges,
                        yld_age_group_id_start |-> 1, yld_age_group_id_end |-> NumAges]],
     [kind |-> "cause", gbd_id |-> 2, sequelae |-> {21}, etiologies |-> {31},
      restrictions |-> [male_only |-> FALSE, female_only |-> FALSE,
                        yld_only |-> TRUE, yll_only |-> FALSE,
                        yll_age_group_id_start |-> None, yll_age_group_id_end |-> None,
                        yld_age_group_id_start |-> 2, yld_age_group_id_end |-> NumAges]],
     [kind |-> "cause", gbd_id |-> 3, sequelae |-> {}, etiologies |-> {},
      restrictions |-> [male_only |-> TRUE, female_only |-> FALSE,
                        yld_only |-> FALSE, yll_only |-> FALSE,
                        yll_age_group_id_start |-> 1, yll_age_group_id_end |-> NumAges,
                        yld_age_group_id_start |-> 1, yld_age_group_id_end |-> NumAges]],
     [kind |-> "cause", gbd_id |-> 4, sequelae |-> {}, etiologies |-> {41},
      restrictions |-> [male_only |-> FALSE, female_only |-> FALSE,
                        yld_only |-> FALSE, yll_only |-> TRUE,
                        yll_age_group_id_start |-> 1, yll_age_group_id_end |-> NumAges,
                        yld_age_group_id_start |-> None, yld_age_group_id_end |-> None]]}

cause_by_id(c_id) == CHOOSE c \in causes : c.gbd_id = c_id

\* DataFrameGroupBy.apply of a check, given the check's result on each
\* group: the call fails if the check fails on some group, and warns if it
\* warns on some group.
GroupApply(results) ==
    LET failed == {r \in results : r.raised # "none"}
    IN  [raised |-> IF failed = {} THEN "none" ELSE (CHOOSE r \in failed : TRUE).raised,
         warned |-> \E r \in results : r.warned]

\* Upper bound of relative-risk draws.
relative_risk_max_val(entity) ==
    IF entity.distribution \in {"ensemble", "lognormal", "normal"}
    THEN MAX_CATEG_REL_RISK
    ELSE MAX_CONT_REL_RISK

\* The loop over the affected causes: each cause's restrictions are checked
\* against the flags of the whole table.
check_flags_of_affected_causes(data) ==
    LET FlagCheck(c_id) ==
            check_mort_morb_flags(data, cause_by_id(c_id).restrictions.yld_only,
                                  cause_by_id(c_id).restrictions.yll_only)
    IN  GroupApply({FlagCheck(c_id) : c_id \in {r.cause_id : r \in data}})

validate_relative_risk(data, entity, location_id, exposure, estimation_years) ==
    LET rows == data.rows
        exposure_age_groups == {r.age_group_id : r \in exposure}
        expected_columns ==
            <<"rei_id", "modelable_entity_id", "cause_id", "mortality", "morbidity", "metric_id",
              "parameter">> \o DEMOGRAPHIC_COLUMNS \o DRAW_COLUMNS
        GroupKey(r) == <<r.cause_id, r.morbidity, r.mortality, r.parameter>>
        grouped == {{r \in rows : GroupKey(r) = k} : k \in {GroupKey(r) : r \in rows}}
        flag_checks == check_flags_of_affected_causes(rows)
        AgeIds(g) == check_age_group_ids(g, SetMin(exposure_age_groups), SetMax(exposure_age_groups))
        SexIds(g) == check_sex_ids(g, ~entity.restrictions.female_only,
                                   ~entity.restrictions.male_only, FALSE)
        SexRestrictions(g) ==
            check_sex_restrictions(g, entity.restrictions.male_only,
                                   entity.restrictions.female_only, DRAW_COLUMNS)
        AgeRestrictions(g) ==
            LET key == GroupKey(CHOOSE r \in g : TRUE)
                cause == cause_by_id(key[1])
            IN  IF key[2] = 1
                THEN check_age_restrictions(g, cause.restrictions.yld_age_group_id_start,
                                            cause.restrictions.yld_age_group_id_end, DRAW_COLUMNS, FALSE)
                ELSE check_age_restrictions(g, cause.restrictions.yll_age_group_id_start,
                                            cause.restrictions.yll_age_group_id_end, DRAW_COLUMNS, FALSE)
        AllAgeIds(g) == check_age_group_ids(g, None, None)
        AllSexIds(g) == check_sex_ids(g, TRUE, TRUE, FALSE)
        group_checks ==
            IF entity.kind = "risk_factor"
            THEN Then(GroupApply({AgeIds(g) : g \in grouped}),
                 Then(GroupApply({SexIds(g) : g \in grouped}),
                 Then(GroupApply({SexRestrictions(g) : g \in grouped}),
                      GroupApply({AgeRestrictions(g) : g \in grouped}))))
            ELSE Then(GroupApply({AllAgeIds(g) : g \in grouped}), GroupApply({AllSexIds(g) : g \in grouped}))
    IN  Then(check_data_exist_table(data, TRUE, DRAW_COLUMNS),
        Then(check_columns(expected_columns, data.columns),
        Then(check_metric_id(rows, "rate"),
        Then(check_years(rows, "binned", estimation_years),
        Then(check_location(rows, location_id),
        Then(flag_checks,
        Then(group_checks,
        Then(check_value_columns_boundary(rows, 1 * Unit, "lower", DRAW_COLUMNS, TRUE,
                                          DefaultBoundaryError),
             check_value_columns_boundary(rows, relative_risk_max_val(entity) * Unit, "upper",
                                          DRAW_COLUMNS, TRUE, DefaultBoundaryError)))))))))

(***************************************************************************)
(* Cause-like measures: incidence and prevalence.                          *)
(***************************************************************************)
MAX_INCIDENCE == 10

\* MEASURES of vivarium_inputs.globals: measure name -> measure_id.
MEASURES ==
    [Deaths |-> 1, YLDs |-> 3, YLLs |-> 4, Prevalence |-> 5, Incidence |-> 6,
     Proportion |-> 18, Continuous |-> 19]

check_measure_id(data, allowable_measures, single_only) ==
    LET measure_ids == {r.measure_id : r \in data}
    IN  IF single_only /\ Cardinality(measure_ids) > 1 THEN Raise("DataAbnormalError")
        ELSE IF ~(measure_ids \subseteq {MEASURES[m] : m \in allowable_measures})
        THEN Raise("DataAbnormalError")
        ELSE Ok

\* f'{entity.kind}_id'
kind_id_column(kind) == IF kind = "cause" THEN "cause_id" ELSE "sequela_id"

\* [c for c in causes if c.sequelae and entity in c.sequelae]
causes_of_sequela(entity) == {c \in causes : c.sequelae # {} /\ entity.gbd_id \in c.sequelae}

\* The checks of a cause-like validator that follow check_location: they
\* use the entity's own restrictions or, for a sequela, those of the first
\* cause that lists it (an IndexError when there is none).
yld_restriction_checks(data, entity) ==
    IF entity.kind # "cause" /\ causes_of_sequela(entity) = {} THEN Raise("IndexError")
    ELSE LET restrictions == IF entity.kind = "cause" THEN entity.restrictions
                             ELSE (CHOOSE c \in causes_of_sequela(entity) : TRUE).restrictions
         IN  Then(check_age_group_ids(data, restrictions.yld_age_group_id_start,
                                      restrictions.yld_age_group_id_end),
             Then(check_sex_ids(data, TRUE, TRUE, FALSE),
             Then(check_age_restrictions(data, restrictions.yld_age_group_id_start,
                                         restrictions.yld_age_group_id_end, DRAW_COLUMNS, TRUE),
                  check_sex_restrictions(data, restrictions.male_only, restrictions.female_only,
                                         DRAW_COLUMNS))))

validate_incidence(data, entity, location_id, estimation_years) ==
    LET rows == data.rows
        expected_columns ==
            <<"measure_id", "metric_id", kind_id_column(entity.kind)>> \o DRAW_COLUMNS \o DEMOGRAPHIC_COLUMNS
    IN  Then(check_data_exist_table(data, TRUE, DRAW_COLUMNS),
        Then(check_columns(expected_columns, data.columns),
        Then(check_measure_id(rows, {"Incidence"}, TRUE),
        Then(check_metric_id(rows, "rate"),
        Then(check_years(rows, "annual", estimation_years),
        Then(check_location(rows, location_id),
        Then(yld_restriction_checks(rows, entity),
        Then(check_value_columns_boundary(rows, 0 * Unit, "lower", DRAW_COLUMNS, TRUE,
                                          "DataAbnormalError"),
             check_value_columns_boundary(rows, MAX_INCIDENCE * Unit, "upper", DRAW_COLUMNS, TRUE,
                                          "None")))))))))

\* Mutant of validate_prevalence: the upper bound only warns.
validate_prevalence_soft_upper(data, entity, location_id, estimation_years) ==
    LET rows == data.rows
        expected_columns ==
            <<"measure_id", "metric_id", kind_id_column(entity.kind)>> \o DRAW_COLUMNS \o DEMOGRAPHIC_COLUMNS
    IN  Then(check_data_exist_table(data, TRUE, DRAW_COLUMNS),
        Then(check_columns(expected_columns, data.columns),
        Then(check_measure_id(rows, {"Prevalence"}, TRUE),
        Then(check_metric_id(rows, "rate"),
        Then(check_years(rows, "annual", estimation_years),
        Then(check_location(rows, location_id),
        Then(yld_restriction_checks(rows, entity),
        Then(check_value_columns_boundary(rows, 0 * Unit, "lower", DRAW_COLUMNS, TRUE,
                                          "DataAbnormalError"),
             check_value_columns_boundary(rows, 1 * Unit, "upper", DRAW_COLUMNS, TRUE,
                                          "None")))))))))

validate_prevalence(data, entity, location_id, estimation_years) ==
    LET rows == data.rows
        expected_columns ==
            <<"measure_id", "metric_id", kind_id_column(entity.kind)>> \o DRAW_COLUMNS \o DEMOGRAPHIC_COLUMNS
    IN  Then(check_data_exist_table(data, TRUE, DRAW_COLUMNS),
        Then(check_columns(expected_columns, data.columns),
        Then(check_measure_id(rows, {"Prevalence"}, TRUE),
        Then(check_metric_id(rows, "rate"),
        Then(check_years(rows, "annual", estimation_years),
        Then(check_location(rows, location_id),
        Then(yld_restriction_checks(rows, entity),
        Then(check_value_columns_boundary(rows, 0 * Unit, "lower", DRAW_COLUMNS, TRUE,
                                          "DataAbnormalError"),
             check_value_columns_boundary(rows, 1 * Unit, "upper", DRAW_COLUMNS, TRUE,
                                          "DataAbnormalError")))))))))

(***************************************************************************)
(* Deaths.                                                                 *)
(***************************************************************************)
\* check_value_columns_boundary with a per-row series as boundary_value: the
\* rows of data and the entries of the series are aligned by their index
\* (age_group_id, year_id, sex_id); an index present on one side only
\* compares as a violation.
check_value_columns_boundary_series(data, boundary_value, boundary_type, value_columns, inclusive, error) ==
    LET idx(r) == <<r.age_group_id, r.year_id, r.sex_id>>
        RowValues(r) == {r.vals[c] : c \in ToSet(value_columns)}
        Within(r, b) ==
            IF boundary_type = "lower"
            THEN (IF inclusive THEN SetMin(RowValues(r)) >= b ELSE SetMin(RowValues(r)) > b)
            ELSE (IF inclusive THEN SetMax(RowValues(r)) <= b ELSE SetMax(RowValues(r)) < b)
        aligned ==
            /\ \A r \in data : \E p \in boundary_value : idx(p) = idx(r) /\ Within(r, p.population)
            /\ \A p \in boundary_value : \E r \in data : idx(r) = idx(p)
    IN  IF aligned THEN Ok
        ELSE IF error = "None" THEN Warn
        ELSE Raise(error)

\* Mutant of validate_deaths: the population bound is a hard error.
validate_deaths_hard_upper(data, entity, location_id, estimation_years, population) ==
    LET rows == data.rows
        expected_columns ==
            <<"measure_id", kind_id_column(entity.kind), "metric_id">> \o DEMOGRAPHIC_COLUMNS \o DRAW_COLUMNS
        restrictions == entity.restrictions
        male_expected ==
            restrictions.male_only \/ (~restrictions.male_only /\ ~restrictions.female_only)
        female_expected ==
            restrictions.female_only \/ (~restrictions.male_only /\ ~restrictions.female_only)
        joined == {p \in population : /\ p.age_group_id \in {r.age_group_id : r \in rows}
                                      /\ p.year_id \in {r.year_id : r \in rows}
                                      /\ p.sex_id # Combined}
    IN  Then(check_data_exist_table(data, TRUE, DRAW_COLUMNS),
        Then(check_columns(expected_columns, data.columns),
        Then(check_measure_id(rows, {"Deaths"}, TRUE),
        Then(check_metric_id(rows, "number"),
        Then(check_years(rows, "annual", estimation_years),
        Then(check_location(rows, location_id),
        Then(check_age_group_ids(rows, restrictions.yll_age_group_id_start,
                                 restrictions.yll_age_group_id_end),
        Then(check_sex_ids(rows, male_expected, female_expected, FALSE),
        Then(check_age_restrictions(rows, restrictions.yll_age_group_id_start,
                                    restrictions.yll_age_group_id_end, DRAW_COLUMNS, TRUE),
        Then(check_sex_restrictions(rows, restrictions.male_only, restrictions.female_only,
                                    DRAW_COLUMNS),
        Then(check_value_columns_boundary(rows, 0 * Unit, "lower", DRAW_COLUMNS, TRUE,
                                          "DataAbnormalError"),
             check_value_columns_boundary_series(rows, joined, "upper", DRAW_COLUMNS, TRUE,
                                                 "DataAbnormalError"))))))))))))

validate_deaths(data, entity, location_id, estimation_years, population) ==
    LET rows == data.rows
        expected_columns ==
            <<"measure_id", kind_id_column(entity.kind), "metric_id">> \o DEMOGRAPHIC_COLUMNS \o DRAW_COLUMNS
        restrictions == entity.restrictions
        male_expected ==
            restrictions.male_only \/ (~restrictions.male_only /\ ~restrictions.female_only)
        female_expected ==
            restrictions.female_only \/ (~restrictions.male_only /\ ~restrictions.female_only)
        joined == {p \in population : /\ p.age_group_id \in {r.age_group_id : r \in rows}
                                      /\ p.year_id \in {r.year_id : r \in rows}
                                      /\ p.sex_id # Combined}
    IN  Then(check_data_exist_table(data, TRUE, DRAW_COLUMNS),
        Then(check_columns(expected_columns, data.columns),
        Then(check_measure_id(rows, {"Deaths"}, TRUE),
        Then(check_metric_id(rows, "number"),
        Then(check_years(rows, "annual", estimation_years),
        Then(check_location(rows, location_id),
        Then(check_age_group_ids(rows, restrictions.yll_age_group_id_start,
                                 restrictions.yll_age_group_id_end),
        Then(check_sex_ids(rows, male_expected, female_expected, FALSE),
        Then(check_age_restrictions(rows, restrictions.yll_age_group_id_start,
                                    restrictions.yll_age_group_id_end, DRAW_COLUMNS, TRUE),
        Then(check_sex_restrictions(rows, restrictions.male_only, restrictions.female_only,
                                    DRAW_COLUMNS),
        Then(check_value_columns_boundary(rows, 0 * Unit, "lower", DRAW_COLUMNS, TRUE,
                                          "DataAbnormalError"),
             check_value_columns_boundary_series(rows, joined, "upper", DRAW_COLUMNS, TRUE,
                                                 "None"))))))))))))

(***************************************************************************)
(* Exposure.                                                               *)
(***************************************************************************)
\* The sum of f over the finite set S.
RECURSIVE SumOver(_, _)
SumOver(S, f) ==
    IF S = {} THEN 0
    ELSE LET x == CHOOSE y \in S : TRUE
         IN  f[x] + SumOver(S \ {x}, f)

\* data.groupby(DEMOGRAPHIC_COLUMNS)[DRAW_COLUMNS].sum() followed by
\* np.allclose(g, 1.0): draws are tenths, far coarser than the tolerance.
sums_to_one(data) ==
    LET key(r) == <<r.location_id, r.sex_id, r.age_group_id, r.year_id>>
        group(k) == {r \in data : key(r) = k}
    IN  \A k \in {key(r) : r \in data} : \A c \in ToSet(DRAW_COLUMNS) :
            SumOver(group(k), [r \in group(k) |-> r.vals[c]]) = 1 * Unit

\* Mutant of exposure_sum_check: the sum over the categories is not checked.
exposure_sum_check_skipped(data) == Ok

exposure_sum_check(data) ==
    IF ~sums_to_one(data) THEN Raise("DataAbnormalError") ELSE Ok

validate_exposure(data, entity, location_id, estimation_years) ==
    LET rows == data.rows
        expected_columns ==
            <<"rei_id", "modelable_entity_id", "parameter", "measure_id", "metric_id">>
                \o DEMOGRAPHIC_COLUMNS \o DRAW_COLUMNS
        cats == {{r \in rows : r.parameter = p} : p \in {r.parameter : r \in rows}}
        tmrel == (entity.tmred.max + entity.tmred.min) \div 2
        group_checks ==
            IF entity.kind = "risk_factor"
            THEN Then(GroupApply({check_age_group_ids(g, None, None) : g \in cats}),
                 Then(GroupApply({check_sex_ids(g, ~entity.restrictions.female_only,
                                                ~entity.restrictions.male_only, FALSE) : g \in cats}),
                 Then(GroupApply({check_sex_restrictions(g, entity.restrictions.male_only,
                                                         entity.restrictions.female_only,
                                                         DRAW_COLUMNS) : g \in cats}),
                      IF entity.distribution \in {"ensemble", "lognormal", "normal"}
                      THEN IF entity.tmred.inverted
                           THEN check_value_columns_boundary(rows, tmrel, "upper", DRAW_COLUMNS,
                                                             TRUE, "None")
                           ELSE check_value_columns_boundary(rows, tmrel, "lower", DRAW_COLUMNS,
                                                             TRUE, "None")
                      ELSE Ok)))
            ELSE Then(GroupApply({check_age_group_ids(g, None, None) : g \in cats}),
                      GroupApply({check_sex_ids(g, TRUE, TRUE, FALSE) : g \in cats}))
        categorical_checks ==
            IF entity.distribution \in {"dichotomous", "ordered_polytomous", "unordered_polytomous"}
            THEN Then(check_value_columns_boundary(rows, 0 * Unit, "lower", DRAW_COLUMNS, TRUE,
                                                   "DataAbnormalError"),
                 Then(check_value_columns_boundary(rows, 1 * Unit, "upper", DRAW_COLUMNS, TRUE,
                                                   "DataAbnormalError"),
                      exposure_sum_check(rows)))
            ELSE Ok
    IN  Then(check_data_exist_table(data, TRUE, DRAW_COLUMNS),
        Then(check_columns(expected_columns, data.columns),
        Then(check_measure_id(rows, {"Prevalence", "Proportion", "Continuous"}, TRUE),
        Then(check_metric_id(rows, "rate"),
        Then(check_years(rows, "either", estimation_years),
        Then(check_location(rows, location_id),
        Then(group_checks,
             categorical_checks)))))))

(***************************************************************************)
(* Population attributable fractions.                                      *)
(***************************************************************************)
\* measure_map: measure_id -> measure name.
measure_map(measure_id) == IF measure_id = MEASURES.YLLs THEN "YLLs" ELSE "YLDs"

\* rr_measures: the relative-risk rows that count for a measure.
rr_measures(measure, r) ==
    IF measure = "YLLs" THEN r.morbidity = 0 /\ r.mortality = 1 ELSE r.morbidity = 1

\* set(df[mask].reset_index().age_group_id) for a boolean frame `mask` of
\* the shape of df, given the rows where the mask is true in some cell:
\* indexing a frame with a boolean frame blanks the cells where the mask is
\* false and keeps every row, so every age group of df is returned
\* whatever the mask.
masked_age_groups(rows, mask_true) == {r.age_group_id : r \in rows}

check_paf_rr_exposure_age_groups(paf, rr, exposure, entity) ==
    IF paf = {} THEN Raise("IndexError")
    ELSE
    LET cause_id == (CHOOSE r \in paf : TRUE).cause_id
        measure_id == (CHOOSE r \in paf : TRUE).measure_id
    IN  IF cause_id \notin {c.gbd_id : c \in causes} THEN Raise("KeyError")
        ELSE IF measure_id \notin {MEASURES.YLLs, MEASURES.YLDs} THEN Raise("KeyError")
        ELSE
        LET cause == cause_by_id(cause_id)
            measure == measure_map(measure_id)
            cause_age_start == IF measure = "YLLs" THEN cause.restrictions.yll_age_group_id_start
                               ELSE cause.restrictions.yld_age_group_id_start
            cause_age_end == IF measure = "YLLs" THEN cause.restrictions.yll_age_group_id_end
                             ELSE cause.restrictions.yld_age_group_id_end
            valid_rr == {r \in rr : r.cause_id = cause_id /\ rr_measures(measure, r)}
            tmrel == (entity.tmred.max + entity.tmred.min) \div 2
            Beyond(v) == IF entity.tmred.inverted THEN v < tmrel ELSE v > tmrel
            exposed_age_groups ==
                masked_age_groups(exposure,
                                  {r \in exposure : \E c \in ToSet(DRAW_COLUMNS) : Beyond(r.vals[c])})
            rr_age_groups ==
                IF entity.distribution \in {"ensemble", "lognormal", "normal"}
                THEN {r.age_group_id : r \in {q \in valid_rr : q.age_group_id \in exposed_age_groups}}
                ELSE masked_age_groups(rr, {r \in rr : \E c \in ToSet(DRAW_COLUMNS) : r.vals[c] # 1 * Unit})
            cause_restriction_ages == ToSet(get_restriction_age_ids(cause_age_start, cause_age_end))
            paf_ages == {r.age_group_id : r \in paf}
        IN  IF measure = "YLLs" /\ valid_rr = {} THEN Ok
            ELSE IF rr_age_groups = {} THEN Raise("ValueError")
            ELSE IF cause_age_start = None THEN Raise("TypeError")
            ELSE
            LET age_start == SetMax({SetMin(rr_age_groups), cause_age_start})
                age_end == SetMin({SetMax(rr_age_groups), cause_age_end})
                valid_but_no_rr == cause_restriction_ages \ rr_age_groups
                not_valid_paf == ProperSubset(cause_restriction_ages, paf_ages)
                missing_pafs == ToSet(get_restriction_age_ids(age_start, age_end)) \ paf_ages
                extra_paf == paf_ages \cap valid_but_no_rr
            IN  IF not_valid_paf THEN Raise("DataAbnormalError")
                ELSE IF missing_pafs # {} THEN Raise("DataAbnormalError")
                ELSE IF extra_paf # {} THEN Warn
                ELSE Ok

\* np.any(data[(data.cause_id == c_id) & (data.measure_id == measure_id)]):
\* true when some cell of the selected rows is non-zero.
np_any_rows(data, c_id, measure_id) ==
    \E r \in data : /\ r.cause_id = c_id /\ r.measure_id = measure_id
                    /\ (\/ r.cause_id # 0 \/ r.measure_id # 0 \/ r.metric_id # 0
                        \/ r.location_id # 0 \/ r.year_id # 0 \/ r.age_group_id # 0 \/ r.sex_id # 0
                        \/ \E c \in ToSet(DRAW_COLUMNS) : r.vals[c] # 0)

\* The body of the loop over the causes of a risk factor's PAF data, for
\* the cause ids still to visit (in increasing order).
RECURSIVE paf_cause_restrictions(_, _)
paf_cause_restrictions(data, c_ids) ==
    IF c_ids = <<>> THEN Ok
    ELSE LET c_id == Head(c_ids)
         IN  IF c_id \notin {c.gbd_id : c \in causes} THEN Raise("IndexError")
             ELSE IF cause_by_id(c_id).restrictions.yld_only /\ np_any_rows(data, c_id, MEASURES.YLLs)
             THEN Raise("DataAbnormalError")
             ELSE IF cause_by_id(c_id).restrictions.yll_only /\ np_any_rows(data, c_id, MEASURES.YLDs)
             THEN Raise("DataAbnormalError")
             ELSE paf_cause_restrictions(data, Tail(c_ids))

\* Mutant of paf_excluded_measure_check: only yld_only causes are checked.
paf_excluded_measure_check_yld_only(data) ==
    IF \E c \in causes : c.restrictions.yld_only /\ np_any_rows(data, c.gbd_id, MEASURES.YLLs)
    THEN Raise("DataAbnormalError")
    ELSE Ok

\* for c_id in set(data.cause_id): ...
paf_excluded_measure_check(data) ==
    paf_cause_restrictions(data, Sorted({r.cause_id : r \in data}))

validate_population_attributable_fraction(data, entity, location_id, estimation_years, relative_risk, exposure) ==
    LET rows == data.rows
        expected_columns ==
            <<"metric_id", "measure_id", "rei_id", "cause_id">> \o DRAW_COLUMNS \o DEMOGRAPHIC_COLUMNS
        restrictions == entity.restrictions
        male_expected == ~restrictions.female_only
        female_expected == ~restrictions.male_only
        GroupKey(r) == <<r.cause_id, r.measure_id>>
        grouped == {{r \in rows : GroupKey(r) = k} : k \in {GroupKey(r) : r \in rows}}
    IN  Then(check_data_exist_table(data, TRUE, DRAW_COLUMNS),
        Then(check_columns(expected_columns, data.columns),
        Then(check_measure_id(rows, {"YLLs", "YLDs"}, FALSE),
        Then(check_metric_id(rows, "percent"),
        Then(check_years(rows, "annual", estimation_years),
        Then(check_location(rows, location_id),
        Then(GroupApply({check_age_group_ids(g, None, None) : g \in grouped}),
        Then(GroupApply({check_sex_ids(g, male_expected, female_expected, FALSE) : g \in grouped}),
        Then(GroupApply({check_sex_restrictions(g, restrictions.male_only, restrictions.female_only,
                                                DRAW_COLUMNS) : g \in grouped}),
        Then(check_value_columns_boundary(rows, 0 * Unit, "lower", DRAW_COLUMNS, TRUE,
                                          "DataAbnormalError"),
        Then(check_value_columns_boundary(rows, 1 * Unit, "upper", DRAW_COLUMNS, TRUE,
                                          "DataAbnormalError"),
        Then(paf_excluded_measure_check(rows),
             GroupApply({check_paf_rr_exposure_age_groups(g, relative_risk, exposure, entity) :
                            g \in grouped})))))))))))))

(***************************************************************************)
(* Etiology population attributable fractions.                             *)
(***************************************************************************)
\* [c for c in causes if c.etiologies and entity in c.etiologies]
causes_of_etiology(entity) == {c \in causes : c.etiologies # {} /\ entity.gbd_id \in c.etiologies}

\* The boundary ('start' or 'end') of the broadest age range over the YLL
\* and YLD restrictions of the entity; the one present when the other is
\* absent.
get_restriction_age_boundary(entity, boundary) ==
    LET yld_age == IF boundary = "start" THEN entity.restrictions.yld_age_group_id_start
                   ELSE entity.restrictions.yld_age_group_id_end
        yll_age == IF boundary = "start" THEN entity.restrictions.yll_age_group_id_start
                   ELSE entity.restrictions.yll_age_group_id_end
    IN  IF yld_age = None THEN yll_age
        ELSE IF yll_age = None THEN yld_age
        ELSE IF boundary = "start" THEN SetMin({yld_age, yll_age})
        ELSE SetMax({yld_age, yll_age})

\* The body of the loop over the cause ids of an etiology's PAF data: the
\* error for YLL rows of a yld_only cause is built but not raised.
RECURSIVE etiology_paf_cause_restrictions(_, _)
etiology_paf_cause_restrictions(data, c_ids) ==
    IF c_ids = <<>> THEN Ok
    ELSE LET c_id == Head(c_ids)
         IN  IF c_id \notin {c.gbd_id : c \in causes} THEN Raise("IndexError")
             ELSE IF cause_by_id(c_id).restrictions.yll_only /\ np_any_rows(data, c_id, MEASURES.YLDs)
             THEN Raise("DataAbnormalError")
             ELSE etiology_paf_cause_restrictions(data, Tail(c_ids))

validate_etiology_population_attributable_fraction(data, entity, location_id, estimation_years) ==
    LET rows == data.rows
        expected_columns ==
            <<"metric_id", "measure_id", "rei_id", "cause_id">> \o DRAW_COLUMNS \o DEMOGRAPHIC_COLUMNS
        restrictions_entity == CHOOSE c \in causes_of_etiology(entity) : TRUE
        restrictions == restrictions_entity.restrictions
        age_start == get_restriction_age_boundary(restrictions_entity, "start")
        age_end == get_restriction_age_boundary(restrictions_entity, "end")
        male_expected == ~restrictions.female_only
        female_expected == ~restrictions.male_only
    IN  Then(check_data_exist_table(data, TRUE, DRAW_COLUMNS),
        Then(check_columns(expected_columns, data.columns),
        Then(check_measure_id(rows, {"YLLs", "YLDs"}, FALSE),
        Then(check_metric_id(rows, "percent"),
        Then(check_years(rows, "annual", estimation_years),
        Then(check_location(rows, location_id),
             IF causes_of_etiology(entity) = {} THEN Raise("IndexError")
             ELSE
             Then(check_age_group_ids(rows, age_start, age_end),
             Then(check_sex_ids(rows, male_expected, female_expected, FALSE),
             Then(check_age_restrictions(rows, age_start, age_end, DRAW_COLUMNS, TRUE),
             Then(check_sex_restrictions(rows, restrictions.male_only, restrictions.female_only,
                                         DRAW_COLUMNS),
             Then(check_value_columns_boundary(rows, 0 * Unit, "lower", DRAW_COLUMNS, TRUE,
                                               "DataAbnormalError"),
             Then(check_value_columns_boundary(rows, 1 * Unit, "upper", DRAW_COLUMNS, TRUE,
                                               "DataAbnormalError"),
                  etiology_paf_cause_restrictions(rows, Sorted({r.cause_id : r \in rows}))))))))))))))

(***************************************************************************)
(* validate_raw_data                                                       *)
(***************************************************************************)
\* The keys of the dispatch table whose validators are modelled here.
validators ==
    {"incidence", "prevalence", "deaths", "exposure", "relative_risk",
     "population_attributable_fraction", "etiology_population_attributable_fraction",
     "mediation_factors"}

validate_mediation_factors == Raise("NotImplementedError")

\* validators[measure](data, entity, location_id, *additional_data)
validate_raw_data(data, entity, measure, location_id, additional_data) ==
    IF measure \notin validators THEN Raise("InvalidQueryError")
    ELSE CASE measure = "incidence" ->
                validate_incidence(data, entity, location_id, additional_data[1])
           [] measure = "prevalence" ->
                validate_prevalence(data, entity, location_id, additional_data[1])
           [] measure = "deaths" ->
                validate_deaths(data, entity, location_id, additional_data[1], additional_data[2])
           [] measure = "exposure" ->
                validate_exposure(data, entity, location_id, additional_data[1])
           [] measure = "relative_risk" ->
                validate_relative_risk(data, entity, location_id, additional_data[1], additional_data[2])
           [] measure = "population_attributable_fraction" ->
                validate_population_attributable_fraction(data, entity, location_id, additional_data[1],
                                                          additional_data[2], additional_data[3])
           [] measure = "etiology_population_attributable_fraction" ->
                validate_etiology_population_attributable_fraction(data, entity, location_id,
                                                                   additional_data[1])
           [] measure = "mediation_factors" -> validate_mediation_factors

\* Mutant of validate_deaths_tables: the filtered population is written back
\* into the caller's table.
validate_deaths_tables_in_place(data, additional_data) ==
    LET population == additional_data[2]
        local_population ==
            {p \in population : /\ p.age_group_id \in {r.age_group_id : r \in data.rows}
                                /\ p.year_id \in {r.year_id : r \in data.rows}
                                /\ p.sex_id # Combined}
    IN  [data |-> data, additional_data |-> <<additional_data[1], local_population>>]

\* The tables the caller of validate_deaths holds once the call is over: the
\* selection of population rows builds a new frame and binds it to the local
\* name, and set_index returns a new frame, so neither argument is written.
validate_deaths_tables(data, additional_data) ==
    LET population == additional_data[2]
        local_population ==
            {p \in population : /\ p.age_group_id \in {r.age_group_id : r \in data.rows}
                                /\ p.year_id \in {r.year_id : r \in data.rows}
                                /\ p.sex_id # Combined}
    IN  [data |-> data, additional_data |-> additional_data]

\* The tables the caller of validate_raw_data holds once the call is over:
\* no validator assigns into a table, drops from it or sorts it in place.
validate_raw_data_tables(data, measure, additional_data) ==
    IF measure = "deaths" THEN validate_deaths_tables(data, additional_data)
    ELSE [data |-> data, additional_data |-> additional_data]

(***************************************************************************)
(* get_data                                                                *)
(***************************************************************************)
\* measure_handlers: for every measure, the entity kinds its handler serves.
measure_handlers ==
    [incidence |-> {"cause", "sequela"},
     raw_incidence |-> {"cause", "sequela"},
     prevalence |-> {"cause", "sequela"},
     birth_prevalence |-> {"cause", "sequela"},
     disability_weight |-> {"cause", "sequela"},
     remission |-> {"cause"},
     cause_specific_mortality |-> {"cause"},
     excess_mortality |-> {"cause"},
     case_fatality |-> {"cause"},
     deaths |-> {"cause"},
     exposure |-> {"risk_factor", "coverage_gap", "alternative_risk_factor"},
     exposure_standard_deviation |-> {"risk_factor", "alternative_risk_factor"},
     exposure_distribution_weights |-> {"risk_factor", "alternative_risk_factor"},
     relative_risk |-> {"risk_factor", "coverage_gap"},
     population_attributable_fraction |-> {"risk_factor", "etiology"},
     mediation_factors |-> {"risk_factor"},
     estimate |-> {"covariate"},
     cost |-> {"healthcare_entity", "health_technology"},
     utilization |-> {"healthcare_entity"},
     structure |-> {"population"},
     theoretical_minimum_risk_life_expectancy |-> {"population"},
     age_bins |-> {"population"},
     demographic_dimensions |-> {"population"}]

\* Mutant of entity_types: every measure is served for causes as well.
entity_types_with_cause(measure) == measure_handlers[measure] \cup {"cause"}

\* handler, entity_types = measure_handlers[measure]
entity_types(measure) == measure_handlers[measure]

\* What calling the measure's handler can end in: a table, or an error of
\* the extraction and validation it runs; two handlers are not implemented.
handler_outcomes(measure) ==
    IF measure \in {"case_fatality", "mediation_factors"} THEN {"NotImplementedError"}
    ELSE {"none", "DataDoesNotExistError", "DataAbnormalError", "InvalidQueryError"}

\* The value columns and the variable name handed to utilities.reshape.
reshape_arguments(measure) ==
    IF measure = "estimate" THEN <<"COVARIATE_VALUE_COLUMNS", "parameter">>
    ELSE IF measure = "exposure_distribution_weights" THEN <<"DISTRIBUTION_COLUMNS", "parameter">>
    ELSE <<"DRAW_COLUMNS", "draw">>

(***************************************************************************)
(* Disability weights                                                      *)
(***************************************************************************)
\* SPECIAL_AGES of the globals: the id of the all-ages group.
SPECIAL_AGES == [all_ages |-> 22]

validate_disability_weight(data, entity, location_id) ==
    LET rows == data.rows
        expected_columns ==
            <<"location_id", "age_group_id", "sex_id", "measure", "healthstate", "healthstate_id">>
                \o DRAW_COLUMNS
    IN  Then(check_data_exist_table(data, FALSE, DRAW_COLUMNS),
        Then(check_columns(expected_columns, data.columns),
        Then(check_location(rows, location_id),
        Then(IF {r.age_group_id : r \in rows} # {SPECIAL_AGES.all_ages}
             THEN Raise("DataAbnormalError") ELSE Ok,
        Then(check_sex_ids(rows, FALSE, FALSE, TRUE),
        Then(check_value_columns_boundary(rows, 0 * Unit, "lower", DRAW_COLUMNS, TRUE,
                                          "DataAbnormalError"),
             check_value_columns_boundary(rows, 1 * Unit, "upper", DRAW_COLUMNS, TRUE,
                                          "DataAbnormalError")))))))

(***************************************************************************)
(* Exposure standard deviation                                             *)
(***************************************************************************)
validate_exposure_standard_deviation(data, entity, location_id, exposure, estimation_years) ==
    LET rows == data.rows
        exposure_age_groups == {e.age_group_id : e \in exposure}
        valid_age_group_data ==
            [columns |-> data.columns, rows |-> {r \in rows : r.age_group_id \in exposure_age_groups}]
        expected_columns ==
            <<"rei_id", "modelable_entity_id", "measure_id", "metric_id">>
                \o DEMOGRAPHIC_COLUMNS \o DRAW_COLUMNS
    IN  IF "age_group_id" \notin ToSet(data.columns) THEN Raise("AttributeError")
        ELSE
        Then(check_data_exist_table(valid_age_group_data, TRUE, DRAW_COLUMNS),
        Then(check_columns(expected_columns, data.columns),
        Then(check_measure_id(rows, {"Continuous"}, TRUE),
        Then(check_metric_id(rows, "rate"),
        Then(check_years(rows, "either", estimation_years),
        Then(check_location(rows, location_id),
        Then(check_age_group_ids(rows, SetMin(exposure_age_groups), SetMax(exposure_age_groups)),
        Then(check_sex_ids(rows, TRUE, TRUE, FALSE),
        Then(check_sex_restrictions(rows, entity.restrictions.male_only,
                                    entity.restrictions.female_only, DRAW_COLUMNS),
             check_value_columns_boundary(valid_age_group_data.rows, 0 * Unit, "lower", DRAW_COLUMNS,
                                          FALSE, "DataAbnormalError"))))))))))

(***************************************************************************)
(* vivarium_inputs.validation.sim: _check_sex_restrictions                 *)
(***************************************************************************)
\* Mutant of _check_sex_restrictions: values are compared with 0, not with
\* the fill value.
_check_sex_restrictions_zero_fill(data, male_only, female_only, fill_value) ==
    IF male_only /\ \E r \in data : r.sex = "Female" /\ r.value # 0
    THEN Raise("DataFormattingError")
    ELSE IF female_only /\ \E r \in data : r.sex = "Male" /\ r.value # 0
    THEN Raise("DataFormattingError")
    ELSE Ok

_check_sex_restrictions(data, male_only, female_only, fill_value) ==
    IF male_only /\ \E r \in data : r.sex = "Female" /\ r.value # fill_value
    THEN Raise("DataFormattingError")
    ELSE IF female_only /\ \E r \in data : r.sex = "Male" /\ r.value # fill_value
    THEN Raise("DataFormattingError")
    ELSE Ok

(***************************************************************************)
(* Inputs of the column and shape checkers.                                *)
(***************************************************************************)
ColumnNames == {"age_group_id", "sex_id", "year_id"}

ColumnLists == SeqsUpTo(ColumnNames, MaxCols)

Years == 1..NumYears

YearTypes == {"annual", "binned", "either"}

YearTables == {{[year_id |-> y] : y \in Y} : Y \in SUBSET Years}

\* Age-group ids a table may carry: the valid ones and one unknown id.
DataAgeIds == 1..(NumAges + 1)

AgeTables == {{[age_group_id |-> a] : a \in A} : A \in SUBSET DataAgeIds}

\* Restriction bounds of an entity: both absent, or two ids of the universe.
RestrictionBounds ==
    {<<None, None>>} \cup (ToSet(gbd_get_age_group_id) \X ToSet(gbd_get_age_group_id))

\* No call is in progress: the caller is free to make the next one.
Idle == call.op = "none"

Init ==
    /\ call = [op |-> "none"]
    /\ result = Ok

\* The call returned (or raised) to the caller; nothing is kept between calls.
Return ==
    /\ ~Idle
    /\ "pc" \in DOMAIN call => call.pc = "done"
    /\ call' = [op |-> "none"]
    /\ result' = Ok

CallCheckColumns ==
    /\ Idle
    /\ \E expected \in ColumnLists, actual \in ColumnLists :
            /\ call' = [op |-> "check_columns", expected |-> expected, actual |-> actual]
            /\ result' = check_columns(expected, actual)

CallCheckYears ==
    /\ Idle
    /\ \E data \in YearTables, year_type \in YearTypes, estimation_years \in (SUBSET Years) \ {{}} :
            /\ call' = [op |-> "check_years", data |-> data, year_type |-> year_type,
                        estimation_years |-> estimation_years]
            /\ result' = check_years(data, year_type, estimation_years)

CallCheckAgeGroupIds ==
    /\ Idle
    /\ \E data \in AgeTables, bounds \in RestrictionBounds :
            /\ call' = [op |-> "check_age_group_ids", data |-> data,
                        restriction_start |-> bounds[1], restriction_end |-> bounds[2]]
            /\ result' = check_age_group_ids(data, bounds[1], bounds[2])

NextShape == CallCheckColumns \/ CallCheckYears \/ CallCheckAgeGroupIds \/ Return

SpecShape == Init /\ [][NextShape]_vars

(***************************************************************************)
(* Restriction enforcers: inputs and calls.                                *)
(***************************************************************************)
\* Values a draw may take: zero, a positive number, missing, infinite.
SexDrawValues == {0, Unit, NaN, Inf}

SexRows == [sex_id : {Male, Female, Combined}, vals : [ToSet(DRAW_COLUMNS) -> SexDrawValues]]

SexTables == SubsetsUpTo(SexRows, MaxRows)

\* Flag values of the relative-risk feed: 0, 1 and an unexpected code.
FlagValues == {0, 1, 2}

FlagRows == [morbidity : FlagValues, mortality : FlagValues]

FlagTables == SUBSET FlagRows

CallCheckSexRestrictions ==
    /\ Idle
    /\ \E data \in SexTables, male_only \in BOOLEAN, female_only \in BOOLEAN :
            /\ call' = [op |-> "check_sex_restrictions", data |-> data,
                        male_only |-> male_only, female_only |-> female_only]
            /\ result' = check_sex_restrictions(data, male_only, female_only, DRAW_COLUMNS)

CallCheckMortMorbFlags ==
    /\ Idle
    /\ \E data \in FlagTables, yld_only \in BOOLEAN, yll_only \in BOOLEAN :
            /\ call' = [op |-> "check_mort_morb_flags", data |-> data,
                        yld_only |-> yld_only, yll_only |-> yll_only]
            /\ result' = check_mort_morb_flags(data, yld_only, yll_only)

\* Values every draw of a row of an age-restricted table may take: zero, a
\* positive number, missing.
AgeDrawValues == {0, Unit, NaN}

\* Rows of an age-restricted table: an age-group id and one value in every draw.
AgeRows == {[age_group_id |-> a, vals |-> [c \in ToSet(DRAW_COLUMNS) |-> v]] : a \in DataAgeIds, v \in AgeDrawValues}

AgeRestrictedTables == SubsetsUpTo(AgeRows, MaxRows)

CallCheckAgeRestrictions ==
    /\ Idle
    /\ \E data \in AgeRestrictedTables, bounds \in RestrictionBounds, error \in BOOLEAN :
            /\ call' = [op |-> "check_age_restrictions", data |-> data,
                        age_group_id_start |-> bounds[1], age_group_id_end |-> bounds[2],
                        error |-> error]
            /\ result' = check_age_restrictions(data, bounds[1], bounds[2], DRAW_COLUMNS, error)

NextRestrict == CallCheckSexRestrictions \/ CallCheckMortMorbFlags \/ CallCheckAgeRestrictions \/ Return

SpecRestrict == Init /\ [][NextRestrict]_vars

(***************************************************************************)
(* Metadata consistency checker: inputs and calls.                         *)
(***************************************************************************)
FlagDomain == {"True", "False"}

DefaultFlags ==
    [exists |-> "True", in_range |-> "True", consistent |-> "True", aggregates |-> "True"]

\* The flags of the queried measure are f, those of the other measures default.
FlagsFor(measures, measure, f) == [m \in measures |-> IF m = measure THEN f ELSE DefaultFlags]

SequelaRangeMeasures == {"incidence", "prevalence", "birth_prevalence"}

SequelaMeasures == SequelaRangeMeasures \cup {"disability_weight"}

SequelaQueries ==
    {<<[kind |-> "sequela",
        flags |-> FlagsFor(SequelaRangeMeasures, m,
                           [exists |-> e, in_range |-> r, consistent |-> "True", aggregates |-> "True"]),
        healthstate |-> [exists |-> [disability_weight |-> d]]], m>> :
        m \in SequelaMeasures, e \in Tri, r \in FlagDomain \cup {"absent"}, d \in Tri}

CauseMeasures == {"incidence", "remission", "deaths"}

\* Restriction bounds found in cause metadata: absent, or start <= end.
MetaBounds ==
    {<<None, None>>} \cup {b \in (1..MetaAges) \X (1..MetaAges) : b[1] <= b[2]}

CauseRestrictions ==
    {[yll_only |-> o[1], yld_only |-> o[2],
      yll_age_group_id_start |-> yll[1], yll_age_group_id_end |-> yll[2],
      yld_age_group_id_start |-> yld[1], yld_age_group_id_end |-> yld[2],
      violated |-> v] :
        o \in {<<FALSE, FALSE>>, <<TRUE, FALSE>>, <<FALSE, TRUE>>},
        yll \in MetaBounds, yld \in MetaBounds, v \in SUBSET {"incidence"}}

CauseQueries ==
    {<<[kind |-> "cause", flags |-> FlagsFor(CauseMeasures, m, f), restrictions |-> r], m>> :
        m \in CauseMeasures, r \in CauseRestrictions,
        f \in [exists : Tri, in_range : FlagDomain, consistent : Tri, aggregates : FlagDomain]}

RiskFlagMeasures == {"exposure", "exposure_standard_deviation", "relative_risk"}

RiskMeasures ==
    RiskFlagMeasures \cup
    {"population_attributable_fraction", "exposure_distribution_weights", "mediation_factors"}

PafFlags ==
    [population_attributable_fraction_yll_exists : Tri,
     population_attributable_fraction_yld_exists : Tri,
     population_attributable_fraction_yll_in_range : FlagDomain,
     population_attributable_fraction_yld_in_range : FlagDomain]

RiskQueries ==
    {<<[kind |-> "risk_factor", distribution |-> d, exposure_year_type |-> y,
        flags |-> FlagsFor(RiskFlagMeasures, m,
                           [exists |-> e, in_range |-> r, consistent |-> "True", aggregates |-> "True"]),
        population_attributable_fraction_yll_exists |-> p.population_attributable_fraction_yll_exists,
        population_attributable_fraction_yld_exists |-> p.population_attributable_fraction_yld_exists,
        population_attributable_fraction_yll_in_range |-> p.population_attributable_fraction_yll_in_range,
        population_attributable_fraction_yld_in_range |-> p.population_attributable_fraction_yld_in_range,
        restrictions |-> [violated |-> v]], m>> :
        m \in RiskMeasures, d \in {"custom", "dichotomous", "ensemble"}, y \in {"mix", "binned"},
        e \in Tri, r \in FlagDomain, p \in PafFlags, v \in SUBSET {"exposure"}}

EtiologyQueries ==
    {<<[kind |-> "etiology",
        population_attributable_fraction_yll_exists |-> p.population_attributable_fraction_yll_exists,
        population_attributable_fraction_yld_exists |-> p.population_attributable_fraction_yld_exists,
        population_attributable_fraction_yll_in_range |-> p.population_attributable_fraction_yll_in_range,
        population_attributable_fraction_yld_in_range |-> p.population_attributable_fraction_yld_in_range],
       "population_attributable_fraction">> : p \in PafFlags}

CovariateQueries ==
    {<<[kind |-> "covariate", mean_value_exists |-> mv, uncertainty_exists |-> u,
        by_sex_violated |-> s, by_age_violated |-> a], "estimate">> :
        mv \in Tri, u \in Tri, s \in BOOLEAN, a \in BOOLEAN}

OtherQueries ==
    {<<[kind |-> k], m>> :
        k \in NoMetadataKinds \cup {"health_technology", "healthcare_entity", "unknown"},
        m \in {"cost", "utilization", "exposure", "structure"}}

MetadataQueries ==
    SequelaQueries \cup CauseQueries \cup RiskQueries \cup EtiologyQueries
        \cup CovariateQueries \cup OtherQueries

\* What indexing a numpy array with a list holding None does in the build.
NumpyOutcomes == {"none", "IndexError", "TypeError"}

CallCheckMetadata ==
    /\ Idle
    /\ \E q \in MetadataQueries, numpy_outcome \in NumpyOutcomes :
            /\ call' = [op |-> "check_metadata", entity |-> q[1], measure |-> q[2]]
            /\ result' = check_metadata(q[1], q[2], numpy_outcome)

NextMeta == CallCheckMetadata \/ Return

SpecMeta == Init /\ [][NextMeta]_vars

(***************************************************************************)
(* Measure-specific validators: inputs and calls.                          *)
(***************************************************************************)
CategoricalDistributions == {"dichotomous", "ordered_polytomous", "unordered_polytomous"}

ContinuousDistributions == {"ensemble", "lognormal", "normal"}

\* The columns of a relative-risk table as the warehouse returns them.
RRColumns ==
    DRAW_COLUMNS \o DEMOGRAPHIC_COLUMNS \o
    <<"parameter", "metric_id", "morbidity", "mortality", "cause_id", "modelable_entity_id", "rei_id">>

\* The table with one row per combination of the shape's id values, every
\* row carrying the draws (lo, hi).
RRTable(shape) ==
    [columns |-> shape.columns,
     rows |-> {[cause_id |-> c, morbidity |-> f[1], mortality |-> f[2], parameter |-> "cat1",
                metric_id |-> shape.metric_id, location_id |-> shape.location_id,
                year_id |-> y, age_group_id |-> a, sex_id |-> x,
                vals |-> [col \in ToSet(DRAW_COLUMNS) |-> IF col = DRAW_COLUMNS[1] THEN shape.lo ELSE shape.hi]] :
               c \in shape.cause_ids, f \in shape.flags, y \in shape.years, a \in shape.ages,
               x \in shape.sexes}
              \cup {[cause_id |-> t[1], morbidity |-> t[2], mortality |-> t[3], parameter |-> "cat1",
                      metric_id |-> shape.metric_id, location_id |-> shape.location_id,
                      year_id |-> y, age_group_id |-> a, sex_id |-> x,
                      vals |-> [col \in ToSet(DRAW_COLUMNS) |-> IF col = DRAW_COLUMNS[1] THEN shape.lo ELSE shape.hi]] :
                     t \in shape.second, y \in shape.years, a \in shape.ages, x \in shape.sexes}]

\* The years the data should be estimated for, and the requested location.
EstimationYears == {1, NumYears}

RequestedLocation == 2

\* A well-formed table: both flags set for the unrestricted cause, every age
\* group, both sexes, the estimation years, the requested location, rates.
BaseShape ==
    [columns |-> RRColumns, cause_ids |-> {1}, flags |-> {<<1, 1>>}, second |-> {}, years |-> EstimationYears,
     ages |-> 1..NumAges, sexes |-> {Male, Female}, location_id |-> RequestedLocation,
     metric_id |-> METRICS.Rate, lo |-> Unit, hi |-> Unit]

\* The well-formed table and its variants, each departing from it in one respect.
RRVariants ==
    {BaseShape}
        \cup {[BaseShape EXCEPT !.columns = cs] :
                cs \in {Tail(RRColumns), RRColumns \o <<"measure_id">>}}
        \cup {[BaseShape EXCEPT !.cause_ids = {2}, !.flags = {<<1, 0>>}]}
        \cup {[BaseShape EXCEPT !.second = ts] : ts \in {{<<2, 1, 0>>}, {<<3, 1, 1>>}}}
        \cup {[BaseShape EXCEPT !.flags = fs] :
                fs \in {{<<1, 0>>, <<0, 1>>}, {<<1, 0>>}, {<<0, 0>>}, {<<1, 1>>, <<1, 0>>}}}
        \cup {[BaseShape EXCEPT !.years = ys] : ys \in {{1}, Years}}
        \cup {[BaseShape EXCEPT !.ages = as] : as \in {{1, 2}, {1, 3}, 1..(NumAges + 1)}}
        \cup {[BaseShape EXCEPT !.sexes = xs] : xs \in {{Male}, {Combined}, {Male, Female, Combined}}}
        \cup {[BaseShape EXCEPT !.location_id = l] : l \in {1, 3}}
        \cup {[BaseShape EXCEPT !.metric_id = METRICS.Number]}
        \cup {[BaseShape EXCEPT !.lo = v] : v \in {0, NaN, Unit - 1}}

\* Largest draws to try: 1, and each bound with the next larger value.
RRValues ==
    {Unit, MAX_CONT_REL_RISK * Unit, MAX_CONT_REL_RISK * Unit + 1,
     MAX_CATEG_REL_RISK * Unit, MAX_CATEG_REL_RISK * Unit + 1}

RRShapes ==
    {[v EXCEPT !.hi = h] : v \in RRVariants, h \in RRValues}
        \cup {[BaseShape EXCEPT !.lo = 0, !.hi = 0]}

RREntities ==
    {[kind |-> "risk_factor", distribution |-> d,
      restrictions |-> [male_only |-> m, female_only |-> FALSE]] :
        d \in CategoricalDistributions \cup ContinuousDistributions, m \in BOOLEAN}
        \cup {[kind |-> "coverage_gap", distribution |-> "dichotomous",
               restrictions |-> [male_only |-> FALSE, female_only |-> FALSE]]}

ExposureTables == {{[age_group_id |-> a] : a \in A} : A \in {1..NumAges, 2..NumAges}}

CallValidateRelativeRisk ==
    /\ Idle
    /\ \E shape \in RRShapes, entity \in RREntities, exposure \in ExposureTables :
            /\ call' = [op |-> "validate_relative_risk", data |-> RRTable(shape), entity |-> entity,
                        location_id |-> RequestedLocation, exposure |-> exposure,
                        estimation_years |-> EstimationYears]
            /\ result' = validate_relative_risk(RRTable(shape), entity, RequestedLocation,
                                                exposure, EstimationYears)

(***************************************************************************)
(* Cause-like measures: inputs and calls.                                  *)
(***************************************************************************)
\* The columns of an incidence or prevalence table of a cause-like entity.
CauseLikeColumns(kind) ==
    DRAW_COLUMNS \o DEMOGRAPHIC_COLUMNS \o <<kind_id_column(kind), "metric_id", "measure_id">>

\* The table with one row per combination of the shape's id values; the rows
\* of a sex carry that sex's pair of draws (combined-sex rows the male pair).
CauseLikeTable(shape) ==
    [columns |-> shape.columns,
     rows |-> {[measure_id |-> m, metric_id |-> shape.metric_id, location_id |-> shape.location_id,
                year_id |-> y, age_group_id |-> a, sex_id |-> x,
                vals |-> [col \in ToSet(DRAW_COLUMNS) |->
                            LET pair == IF x = Female THEN shape.female ELSE shape.male
                            IN  IF col = DRAW_COLUMNS[1] THEN pair[1] ELSE pair[2]]] :
               m \in shape.measure_ids, y \in shape.years, a \in shape.ages, x \in shape.sexes}]

\* A well-formed table of the measure for an entity of the kind: every
\* year of the estimation range, every age group, both sexes.
CauseLikeBase(kind, measure) ==
    [columns |-> CauseLikeColumns(kind), measure_ids |-> {MEASURES[measure]},
     metric_id |-> METRICS.Rate, years |-> Years, ages |-> 1..NumAges, sexes |-> {Male, Female},
     location_id |-> RequestedLocation, male |-> <<Unit \div 2, Unit>>, female |-> <<Unit \div 2, Unit>>]

\* The well-formed table and its variants, each departing from it in one respect.
CauseLikeVariants(kind, measure) ==
    LET base == CauseLikeBase(kind, measure)
    IN  {base}
            \cup {[base EXCEPT !.columns = cs] :
                    cs \in {Tail(base.columns), base.columns \o <<"parameter">>}}
            \cup {[base EXCEPT !.measure_ids = ms] :
                    ms \in {{MEASURES.Deaths}, {MEASURES.Prevalence, MEASURES.Incidence}}}
            \cup {[base EXCEPT !.metric_id = METRICS.Number]}
            \cup {[base EXCEPT !.years = ys] : ys \in {EstimationYears, {1}}}
            \cup {[base EXCEPT !.ages = as] : as \in {{1, 2}, {1, 3}, 2..NumAges, 1..(NumAges + 1)}}
            \cup {[base EXCEPT !.sexes = xs] : xs \in {{Male}, {Combined}, {Male, Female, Combined}}}
            \cup {[base EXCEPT !.location_id = l] : l \in {1, 3}}

\* Pairs of draws the rows of one sex may carry in a prevalence table.
PrevalenceDraws ==
    {<<0, 0>>, <<0, Unit>>, <<Unit \div 2, Unit>>, <<Unit \div 2, Unit + (Unit \div 2)>>,
     <<-1, Unit>>, <<NaN, Unit>>, <<0, Inf>>}

PrevalenceShapes(kind) ==
    {[v EXCEPT !.male = m, !.female = f] :
        v \in CauseLikeVariants(kind, "Prevalence"), m \in PrevalenceDraws, f \in PrevalenceDraws}

\* Sequelae: one of each cause that has sequelae, and one no cause lists.
Sequelae == {[kind |-> "sequela", gbd_id |-> s] : s \in {11, 21, 99}}

CauseLikeEntities == causes \cup Sequelae

CallValidatePrevalence ==
    /\ Idle
    /\ \E entity \in CauseLikeEntities :
       \E shape \in PrevalenceShapes(entity.kind) :
            /\ call' = [op |-> "validate_prevalence", data |-> CauseLikeTable(shape), entity |-> entity,
                        location_id |-> RequestedLocation, estimation_years |-> EstimationYears]
            /\ result' = validate_prevalence(CauseLikeTable(shape), entity, RequestedLocation,
                                             EstimationYears)

\* A well-formed deaths table and its variants: counts, not rates.
DeathsVariants ==
    {[v EXCEPT !.metric_id = IF v.metric_id = METRICS.Rate THEN METRICS.Number ELSE METRICS.Rate] :
        v \in CauseLikeVariants("cause", "Deaths")}

\* The population count of every cell of the population table.
PopulationCount == 5 * Unit

\* Pairs of draws the rows of one sex may carry in a deaths table.
DeathsDraws ==
    {<<0, 0>>, <<0, Unit>>, <<Unit, PopulationCount>>, <<Unit, PopulationCount + 1>>,
     <<-1, Unit>>, <<-1, PopulationCount + 1>>, <<NaN, Unit>>}

DeathsShapes ==
    {[v EXCEPT !.male = m, !.female = f] : v \in DeathsVariants, m \in DeathsDraws, f \in DeathsDraws}

\* The population table of the location: a count for every year, sex
\* (combined included) and age group of `ages`.
PopulationTable(ages) ==
    {[age_group_id |-> a, year_id |-> y, sex_id |-> x, population |-> PopulationCount] :
        a \in ages, y \in Years, x \in {Male, Female, Combined}}

PopulationTables == {PopulationTable(1..NumAges), PopulationTable(2..NumAges)}

CallValidateDeaths ==
    /\ Idle
    /\ \E entity \in causes, shape \in DeathsShapes, population \in PopulationTables :
            /\ call' = [op |-> "validate_deaths", data |-> CauseLikeTable(shape), entity |-> entity,
                        location_id |-> RequestedLocation, estimation_years |-> EstimationYears,
                        population |-> population]
            /\ result' = validate_deaths(CauseLikeTable(shape), entity, RequestedLocation,
                                         EstimationYears, population)

\* The columns of an exposure table as the warehouse returns them.
ExposureColumns ==
    DRAW_COLUMNS \o DEMOGRAPHIC_COLUMNS \o
    <<"metric_id", "measure_id", "parameter", "modelable_entity_id", "rei_id">>

\* The table with one row per category and combination of the shape's id
\* values; the rows of a category carry that category's pair of draws.
ExposureTable(shape) ==
    [columns |-> shape.columns,
     rows |-> {[parameter |-> p, measure_id |-> shape.measure_id, metric_id |-> shape.metric_id,
                location_id |-> shape.location_id, year_id |-> y, age_group_id |-> a, sex_id |-> x,
                vals |-> [col \in ToSet(DRAW_COLUMNS) |->
                            IF col = DRAW_COLUMNS[1] THEN shape.draws[p][1] ELSE shape.draws[p][2]]] :
               p \in DOMAIN shape.draws, y \in shape.years, a \in shape.ages, x \in shape.sexes}]

\* Two categories whose draws sum to 1 in every demographic group.
ExposureSumOne ==
    [p \in {"cat1", "cat2"} |->
        IF p = "cat1" THEN <<Unit \div 2, Unit>> ELSE <<Unit - (Unit \div 2), 0>>]

\* Two categories whose first draw sums to 0.9 (one tenth short of 1).
ExposureSumShort ==
    [p \in {"cat1", "cat2"} |->
        IF p = "cat1" THEN <<(Unit \div 2) - 1, Unit>> ELSE <<Unit - (Unit \div 2), 0>>]

\* Pairs of draws the rows of one category may carry.
ExposureDraws ==
    {<<0, 0>>, <<Unit \div 2, Unit>>, <<Unit - (Unit \div 2), 0>>, <<(Unit \div 2) - 1, Unit>>,
     <<Unit, Unit>>, <<-1, Unit + 1>>, <<NaN, Unit>>, <<2 * Unit, 2 * Unit>>}

\* A well-formed exposure table: proportions of two categories.
ExposureBase ==
    [columns |-> ExposureColumns, measure_id |-> MEASURES.Proportion, metric_id |-> METRICS.Rate,
     years |-> EstimationYears, ages |-> 1..NumAges, sexes |-> {Male, Female},
     location_id |-> RequestedLocation, draws |-> ExposureSumOne]

\* The well-formed table and its variants, each departing from it in one respect.
ExposureVariants ==
    {ExposureBase}
        \cup {[ExposureBase EXCEPT !.columns = cs] :
                cs \in {Tail(ExposureColumns), ExposureColumns \o <<"cause_id">>}}
        \cup {[ExposureBase EXCEPT !.measure_id = MEASURES.Deaths]}
        \cup {[ExposureBase EXCEPT !.metric_id = METRICS.Number]}
        \cup {[ExposureBase EXCEPT !.years = ys] : ys \in {Years, {1}}}
        \cup {[ExposureBase EXCEPT !.ages = as] : as \in {{1, 3}, 2..NumAges, 1..(NumAges + 1)}}
        \cup {[ExposureBase EXCEPT !.sexes = xs] : xs \in {{Male}, {Combined}}}
        \cup {[ExposureBase EXCEPT !.location_id = 3]}

\* Every variant with the categories summing to 1 and to 0.9, and the
\* well-formed table with every choice of draws for two categories or for
\* the single parameter of a continuous exposure.
ExposureShapes ==
    {[v EXCEPT !.draws = d] : v \in ExposureVariants, d \in {ExposureSumOne, ExposureSumShort}}
        \cup {[ExposureBase EXCEPT !.draws = [p \in {"cat1", "cat2"} |-> IF p = "cat1" THEN d1 ELSE d2]] :
                d1 \in ExposureDraws, d2 \in ExposureDraws}
        \cup {[ExposureBase EXCEPT !.draws = [p \in {"continuous"} |-> d], !.measure_id = m] :
                d \in ExposureDraws, m \in {MEASURES.Continuous}}

\* Risk factors by distribution, sex restriction and orientation of the
\* theoretical-minimum-risk exposure; a coverage gap; an alternative risk factor.
ExposureEntities ==
    {[kind |-> "risk_factor", distribution |-> d,
      restrictions |-> [male_only |-> m, female_only |-> FALSE],
      tmred |-> [min |-> 0, max |-> 2 * Unit, inverted |-> i]] :
        d \in {"dichotomous", "unordered_polytomous", "ensemble"}, m \in BOOLEAN, i \in BOOLEAN}
        \cup {[kind |-> "coverage_gap", distribution |-> "dichotomous"],
              [kind |-> "alternative_risk_factor", distribution |-> "ensemble"]}

CallValidateExposure ==
    /\ Idle
    /\ \E entity \in ExposureEntities, shape \in ExposureShapes :
            /\ call' = [op |-> "validate_exposure", data |-> ExposureTable(shape), entity |-> entity,
                        location_id |-> RequestedLocation, estimation_years |-> EstimationYears]
            /\ result' = validate_exposure(ExposureTable(shape), entity, RequestedLocation,
                                           EstimationYears)

\* The columns of a PAF table as the warehouse returns them.
PafColumns ==
    DRAW_COLUMNS \o DEMOGRAPHIC_COLUMNS \o <<"cause_id", "rei_id", "measure_id", "metric_id">>

\* The table with one row per (cause, measure) pair and combination of the
\* shape's id values; the rows of a sex carry that sex's pair of draws.
PafTable(shape) ==
    [columns |-> shape.columns,
     rows |-> {[cause_id |-> cm[1], measure_id |-> cm[2], metric_id |-> shape.metric_id,
                location_id |-> shape.location_id, year_id |-> y, age_group_id |-> a, sex_id |-> x,
                vals |-> [col \in ToSet(DRAW_COLUMNS) |->
                            LET pair == IF x = Female THEN shape.female ELSE shape.male
                            IN  IF col = DRAW_COLUMNS[1] THEN pair[1] ELSE pair[2]]] :
               cm \in shape.cause_measures, y \in shape.years, a \in shape.ages, x \in shape.sexes}]

\* A well-formed PAF table: YLL and YLD fractions of the unrestricted cause.
PafBase ==
    [columns |-> PafColumns, cause_measures |-> {<<1, MEASURES.YLLs>>, <<1, MEASURES.YLDs>>},
     metric_id |-> METRICS.Percent, years |-> Years, ages |-> 1..NumAges, sexes |-> {Male, Female},
     location_id |-> RequestedLocation, male |-> <<Unit \div 2, Unit>>, female |-> <<Unit \div 2, Unit>>]

\* The (cause, measure) pairs a PAF table may hold: for the unrestricted
\* cause, the yld_only cause 2 and the yll_only cause 4, with and without
\* rows of the excluded measure.
PafCauseMeasures ==
    {{<<1, MEASURES.YLLs>>, <<1, MEASURES.YLDs>>}, {<<1, MEASURES.YLDs>>},
     {<<2, MEASURES.YLDs>>}, {<<2, MEASURES.YLLs>>, <<2, MEASURES.YLDs>>}, {<<2, MEASURES.YLLs>>},
     {<<4, MEASURES.YLLs>>}, {<<4, MEASURES.YLDs>>},
     {<<1, MEASURES.YLDs>>, <<4, MEASURES.YLDs>>}, {<<1, MEASURES.YLLs>>, <<2, MEASURES.YLLs>>}}

\* Pairs of draws the rows of one sex may carry in a PAF table.
PafDraws == {<<Unit \div 2, Unit>>, <<0, 0>>, <<0, Unit + 1>>, <<NaN, Unit>>}

PafShapes ==
    {[PafBase EXCEPT !.cause_measures = cms, !.ages = as, !.male = d] :
        cms \in PafCauseMeasures, as \in {1..NumAges, 2..NumAges, {2, 3}}, d \in PafDraws}
        \cup {[PafBase EXCEPT !.columns = cs] : cs \in {Tail(PafColumns), PafColumns \o <<"parameter">>}}
        \cup {[PafBase EXCEPT !.cause_measures = {<<1, MEASURES.Deaths>>}]}
        \cup {[PafBase EXCEPT !.metric_id = METRICS.Rate]}
        \cup {[PafBase EXCEPT !.years = EstimationYears]}
        \cup {[PafBase EXCEPT !.ages = as] : as \in {{1, 3}, 1..(NumAges + 1)}}
        \cup {[PafBase EXCEPT !.sexes = xs] : xs \in {{Male}, {Combined}}}
        \cup {[PafBase EXCEPT !.location_id = 3]}

\* Relative-risk rows for the causes and flag pairs over the age groups
\* `trivial` (every draw 1) and `nontrivial` (a draw of 2).
PafRelativeRisk(cause_ids, flags, trivial, nontrivial) ==
    {[cause_id |-> c, morbidity |-> f[1], mortality |-> f[2], age_group_id |-> a,
      vals |-> [col \in ToSet(DRAW_COLUMNS) |->
                  IF a \in nontrivial /\ col = DRAW_COLUMNS[2] THEN 2 * Unit ELSE 1 * Unit]] :
        c \in cause_ids, f \in flags, a \in trivial \cup nontrivial}

\* Exposure rows over the age groups `unexposed` (draws at the tmrel) and
\* `exposed` (draws above it).
PafExposure(unexposed, exposed) ==
    {[age_group_id |-> a,
      vals |-> [col \in ToSet(DRAW_COLUMNS) |-> IF a \in exposed THEN 2 * Unit ELSE 1 * Unit]] :
        a \in unexposed \cup exposed}

\* The relative-risk and exposure tables passed along with a PAF table.
PafRelativeRiskTables ==
    {PafRelativeRisk({1, 2, 4}, {<<1, 0>>, <<0, 1>>}, {}, 1..NumAges),
     PafRelativeRisk({1, 2, 4}, {<<1, 1>>}, {1, NumAges}, 2..(NumAges - 1)),
     PafRelativeRisk({1}, {<<1, 0>>, <<0, 1>>}, {}, {2, 3})}

PafExposureTables == {PafExposure({}, 1..NumAges), PafExposure({1}, 2..NumAges)}

\* Risk factors with a categorical and a continuous distribution.
PafEntities ==
    {[kind |-> "risk_factor", distribution |-> d,
      restrictions |-> [male_only |-> m, female_only |-> FALSE],
      tmred |-> [min |-> 0, max |-> 2 * Unit, inverted |-> FALSE]] :
        d \in {"dichotomous", "ensemble"}, m \in BOOLEAN}

CallValidatePopulationAttributableFraction ==
    /\ Idle
    /\ \E entity \in PafEntities, shape \in PafShapes,
          relative_risk \in PafRelativeRiskTables, exposure \in PafExposureTables :
            /\ call' = [op |-> "validate_population_attributable_fraction", data |-> PafTable(shape),
                        entity |-> entity, location_id |-> RequestedLocation,
                        estimation_years |-> EstimationYears,
                        relative_risk |-> relative_risk, exposure |-> exposure]
            /\ result' = validate_population_attributable_fraction(
                             PafTable(shape), entity, RequestedLocation, EstimationYears,
                             relative_risk, exposure)

\* Etiologies: one of each cause that has etiologies, and one no cause lists.
Etiologies == {[kind |-> "etiology", gbd_id |-> e] : e \in {30, 31, 41, 99}}

CallValidateEtiologyPopulationAttributableFraction ==
    /\ Idle
    /\ \E entity \in Etiologies, shape \in PafShapes :
            /\ call' = [op |-> "validate_etiology_population_attributable_fraction",
                        data |-> PafTable(shape), entity |-> entity,
                        location_id |-> RequestedLocation, estimation_years |-> EstimationYears]
            /\ result' = validate_etiology_population_attributable_fraction(
                             PafTable(shape), entity, RequestedLocation, EstimationYears)

NextValidate ==
    \/ CallValidateRelativeRisk
    \/ CallValidatePrevalence
    \/ CallValidateDeaths
    \/ CallValidateExposure
    \/ CallValidatePopulationAttributableFraction
    \/ CallValidateEtiologyPopulationAttributableFraction
    \/ Return

SpecValidate == Init /\ [][NextValidate]_vars

(***************************************************************************)
(* PAF against relative risk and exposure: inputs and calls.               *)
(***************************************************************************)
\* The PAF rows of one cause and one measure over the age groups `ages`.
PafGroup(cause_id, measure_id, ages) ==
    {[cause_id |-> cause_id, measure_id |-> measure_id, age_group_id |-> a] : a \in ages}

\* Age groups with trivial and with non-trivial relative risk.
PafRelativeRiskAges ==
    {<<{}, 1..NumAges>>, <<{1, NumAges}, 2..(NumAges - 1)>>, <<{}, {2, 3}>>, <<{1, 4}, {2, 3}>>,
     <<{}, {}>>}

PafGroupRelativeRiskTables ==
    {PafRelativeRisk({1, 2, 4}, flags, tn[1], tn[2]) :
        flags \in {{<<1, 0>>, <<0, 1>>}, {<<1, 1>>}}, tn \in PafRelativeRiskAges}

PafGroupExposureTables ==
    {PafExposure({}, 1..NumAges), PafExposure({1}, 2..NumAges), PafExposure({}, {2, 3})}

PafGroupEntities == {e \in PafEntities : ~e.restrictions.male_only}

CallCheckPafRrExposureAgeGroups ==
    /\ Idle
    /\ \E cause_id \in {1, 2, 4}, measure_id \in {MEASURES.YLLs, MEASURES.YLDs},
          ages \in (SUBSET (1..NumAges)) \ {{}}, rr \in PafGroupRelativeRiskTables,
          exposure \in PafGroupExposureTables, entity \in PafGroupEntities :
            /\ call' = [op |-> "check_paf_rr_exposure_age_groups",
                        paf |-> PafGroup(cause_id, measure_id, ages), rr |-> rr,
                        exposure |-> exposure, entity |-> entity]
            /\ result' = check_paf_rr_exposure_age_groups(PafGroup(cause_id, measure_id, ages), rr,
                                                          exposure, entity)

NextPaf == CallCheckPafRrExposureAgeGroups \/ Return

SpecPaf == Init /\ [][NextPaf]_vars

\* Pairs of draws the rows of one sex may carry in an incidence table: all
\* zero, in range, negative, above MAX_INCIDENCE.
IncidenceDraws ==
    {<<0, 0>>, <<Unit \div 2, Unit>>, <<-1, Unit>>, <<Unit, (MAX_INCIDENCE + 1) * Unit>>}

IncidenceShapes(kind) ==
    {[v EXCEPT !.male = m, !.female = f] :
        v \in CauseLikeVariants(kind, "Incidence"), m \in IncidenceDraws, f \in IncidenceDraws}

CallValidateIncidence ==
    /\ Idle
    /\ \E entity \in CauseLikeEntities :
       \E shape \in IncidenceShapes(entity.kind) :
            /\ call' = [op |-> "validate_incidence", data |-> CauseLikeTable(shape), entity |-> entity,
                        location_id |-> RequestedLocation, estimation_years |-> EstimationYears]
            /\ result' = validate_incidence(CauseLikeTable(shape), entity, RequestedLocation,
                                            EstimationYears)

NextIncidence == CallValidateIncidence \/ Return

SpecIncidence == Init /\ [][NextIncidence]_vars

\* The call validate_raw_data(data, entity, measure, location_id,
\* *additional_data): the record keeps the tables as they were passed and, in
\* `held`, the tables the caller holds afterwards.
FirstCall(data, entity, measure, additional_data) ==
    /\ call' = [op |-> "validate_raw_data", calls |-> 1, data |-> data, entity |-> entity,
                measure |-> measure, location_id |-> RequestedLocation,
                additional_data |-> additional_data,
                held |-> validate_raw_data_tables(data, measure, additional_data),
                first |-> validate_raw_data(data, entity, measure, RequestedLocation, additional_data)]
    /\ result' = validate_raw_data(data, entity, measure, RequestedLocation, additional_data)

\* Shapes of the PAF tables handed to validate_raw_data.
RawPafShapes == {PafBase, [PafBase EXCEPT !.ages = {2, 3}], [PafBase EXCEPT !.metric_id = METRICS.Rate]}

CallValidateRawData ==
    /\ Idle
    /\ \/ \E entity \in CauseLikeEntities :
          \E shape \in CauseLikeVariants(entity.kind, "Incidence") :
                FirstCall(CauseLikeTable(shape), entity, "incidence", <<EstimationYears>>)
       \/ \E entity \in CauseLikeEntities :
          \E shape \in CauseLikeVariants(entity.kind, "Prevalence") :
                FirstCall(CauseLikeTable(shape), entity, "prevalence", <<EstimationYears>>)
       \/ \E entity \in causes, v \in DeathsVariants, d \in DeathsDraws, population \in PopulationTables :
                FirstCall(CauseLikeTable([v EXCEPT !.male = d]), entity, "deaths",
                          <<EstimationYears, population>>)
       \/ \E entity \in ExposureEntities, shape \in ExposureVariants :
                FirstCall(ExposureTable(shape), entity, "exposure", <<EstimationYears>>)
       \/ \E entity \in RREntities, shape \in RRVariants, exposure \in ExposureTables :
                FirstCall(RRTable(shape), entity, "relative_risk", <<exposure, EstimationYears>>)
       \/ \E entity \in PafEntities, shape \in RawPafShapes,
             relative_risk \in PafRelativeRiskTables, exposure \in PafExposureTables :
                FirstCall(PafTable(shape), entity, "population_attributable_fraction",
                          <<EstimationYears, relative_risk, exposure>>)
       \/ \E entity \in Etiologies, shape \in RawPafShapes :
                FirstCall(PafTable(shape), entity, "etiology_population_attributable_fraction",
                          <<EstimationYears>>)
       \/ \E entity \in causes, measure \in {"mediation_factors", "birth_weight"} :
                FirstCall(CauseLikeTable(CauseLikeBase("cause", "Deaths")), entity, measure, <<>>)

\* The caller repeats the call with the same arguments: the tables it holds.
CallValidateRawDataAgain ==
    /\ call.op = "validate_raw_data"
    /\ call.calls = 1
    /\ call' = [call EXCEPT !.calls = 2, !.first = result,
                            !.held = validate_raw_data_tables(call.held.data, call.measure,
                                                              call.held.additional_data)]
    /\ result' = validate_raw_data(call.held.data, call.entity, call.measure, call.location_id,
                                   call.held.additional_data)

NextRaw == CallValidateRawData \/ CallValidateRawDataAgain \/ Return

SpecRaw == Init /\ [][NextRaw]_vars

\* Measure names and entity kinds a caller may pass to get_data: those of
\* the table and one unknown each.
GetDataMeasures == DOMAIN measure_handlers \cup {"birth_weight"}

GetDataKinds == metadata_checkers \cup {"unknown"}

\* get_data(entity, measure, location) is entered; nothing has run yet.
CallGetData ==
    /\ Idle
    /\ \E kind \in GetDataKinds, measure \in GetDataMeasures, location \in {"name", "id"} :
            call' = [op |-> "get_data", entity |-> [kind |-> kind], measure |-> measure,
                     location |-> location, pc |-> "measure", located |-> FALSE,
                     extracted |-> FALSE, reshaped |-> "none"]
    /\ result' = Ok

\* if measure not in measure_handlers: raise InvalidQueryError
GetDataCheckMeasure ==
    /\ call.op = "get_data"
    /\ call.pc = "measure"
    /\ IF call.measure \notin DOMAIN measure_handlers
       THEN call' = [call EXCEPT !.pc = "done"] /\ result' = Raise("InvalidQueryError")
       ELSE call' = [call EXCEPT !.pc = "kind"] /\ UNCHANGED result

\* if entity.kind not in entity_types: raise InvalidQueryError
GetDataCheckKind ==
    /\ call.op = "get_data"
    /\ call.pc = "kind"
    /\ IF call.entity.kind \notin entity_types(call.measure)
       THEN call' = [call EXCEPT !.pc = "done"] /\ result' = Raise("InvalidQueryError")
       ELSE call' = [call EXCEPT !.pc = "location"] /\ UNCHANGED result

\* A location given by name is looked up; an unknown name is an error of the lookup.
GetDataLocation ==
    /\ call.op = "get_data"
    /\ call.pc = "location"
    /\ IF call.location = "id"
       THEN call' = [call EXCEPT !.pc = "handler"] /\ UNCHANGED result
       ELSE \/ call' = [call EXCEPT !.pc = "handler", !.located = TRUE] /\ UNCHANGED result
            \/ call' = [call EXCEPT !.pc = "done", !.located = TRUE] /\ result' = Raise("IndexError")

\* data = handler(entity, location_id)
GetDataHandler ==
    /\ call.op = "get_data"
    /\ call.pc = "handler"
    /\ \E outcome \in handler_outcomes(call.measure) :
            IF outcome = "none"
            THEN call' = [call EXCEPT !.pc = "reshape", !.extracted = TRUE] /\ UNCHANGED result
            ELSE call' = [call EXCEPT !.pc = "done", !.extracted = TRUE] /\ result' = Raise(outcome)

\* data = utilities.reshape(data, value_cols=value_cols, var_name=var_name)
GetDataReshape ==
    /\ call.op = "get_data"
    /\ call.pc = "reshape"
    /\ call' = [call EXCEPT !.pc = "done", !.reshaped = reshape_arguments(call.measure)[2]]
    /\ UNCHANGED result

NextGetData ==
    \/ CallGetData
    \/ GetDataCheckMeasure
    \/ GetDataCheckKind
    \/ GetDataLocation
    \/ GetDataHandler
    \/ GetDataReshape
    \/ Return

SpecGetData == Init /\ [][NextGetData]_vars

(***************************************************************************)
(* The legacy ArtifactBuilder.process: worker pool and file lock.          *)
(***************************************************************************)
\* The jobs of one process call: one per requested entity.
Jobs == 1..NumJobs

\* The value of the lock when no worker holds it.
Unlocked == 0

IsProcess == call.op = "process"

\* Jobs whose _worker is running.
RunningJobs == {j \in Jobs : call.jobs[j] \in {"loading", "acquire", "dump", "finally"}}

\* process(path, locations, parallelism): the dimensions are written, the
\* lock and the pool are created and every job is submitted.
CallProcess ==
    /\ Idle
    /\ \E parallelism \in 1..NumJobs, writes \in [Jobs -> 0..MaxWrites] :
            call' = [op |-> "process", pc |-> "pool", parallelism |-> parallelism,
                     lock |-> Unlocked, jobs |-> [j \in Jobs |-> "queued"],
                     writes |-> writes, raised |-> [j \in Jobs |-> FALSE]]
    /\ result' = Ok

\* A pool process (or, with parallelism 1, the caller itself) starts _worker
\* for a submitted job.
WorkerStart ==
    /\ IsProcess
    /\ call.pc = "pool"
    /\ Cardinality(RunningJobs) < call.parallelism
    /\ \E j \in Jobs :
            /\ call.jobs[j] = "queued"
            /\ call' = [call EXCEPT !.jobs[j] = "loading"]
    /\ UNCHANGED result

\* The loader calls writer(measure, data) once more: lock.acquire() is next.
WorkerWriter ==
    /\ IsProcess
    /\ \E j \in Jobs :
            /\ call.jobs[j] = "loading"
            /\ call.writes[j] > 0
            /\ call' = [call EXCEPT !.jobs[j] = "acquire", !.writes[j] = @ - 1]
    /\ UNCHANGED result

\* lock.acquire() returns: the lock was free.
WorkerAcquire ==
    /\ IsProcess
    /\ call.lock = Unlocked
    /\ \E j \in Jobs :
            /\ call.jobs[j] = "acquire"
            /\ call' = [call EXCEPT !.jobs[j] = "dump", !.lock = j]
    /\ UNCHANGED result

\* _dump(...) returns or raises; the finally clause is next in both cases.
WorkerDump ==
    /\ IsProcess
    /\ \E j \in Jobs, raises \in BOOLEAN :
            /\ call.jobs[j] = "dump"
            /\ call' = [call EXCEPT !.jobs[j] = "finally", !.raised[j] = raises]
    /\ UNCHANGED result

\* Mutant of WorkerRelease: the lock is released only after a write that
\* returned (no finally clause).
WorkerRelease_without_finally ==
    /\ IsProcess
    /\ \E j \in Jobs :
            /\ call.jobs[j] = "finally"
            /\ IF ~call.raised[j]
               THEN call' = [call EXCEPT !.jobs[j] = "loading", !.lock = Unlocked] /\ UNCHANGED result
               ELSE IF call.parallelism > 1
               THEN call' = [call EXCEPT !.jobs[j] = "failed"] /\ UNCHANGED result
               ELSE /\ call' = [call EXCEPT !.jobs[j] = "failed", !.pc = "done"]
                    /\ result' = Raise("Exception")

\* finally: lock.release(); then the writer returns to the loader or the
\* exception of _dump leaves _worker.  With parallelism 1 the exception
\* leaves process as well; the pool keeps it in the job's result.
WorkerRelease ==
    /\ IsProcess
    /\ \E j \in Jobs :
            /\ call.jobs[j] = "finally"
            /\ IF ~call.raised[j]
               THEN call' = [call EXCEPT !.jobs[j] = "loading", !.lock = Unlocked] /\ UNCHANGED result
               ELSE IF call.parallelism > 1
               THEN call' = [call EXCEPT !.jobs[j] = "failed", !.lock = Unlocked] /\ UNCHANGED result
               ELSE /\ call' = [call EXCEPT !.jobs[j] = "failed", !.lock = Unlocked, !.pc = "done"]
                    /\ result' = Raise("Exception")

\* The loader returns: _worker is over.
WorkerFinish ==
    /\ IsProcess
    /\ \E j \in Jobs :
            /\ call.jobs[j] = "loading"
            /\ call.writes[j] = 0
            /\ call' = [call EXCEPT !.jobs[j] = "finished"]
    /\ UNCHANGED result

\* pool.close(); pool.join(): every job is over.
ProcessJoin ==
    /\ IsProcess
    /\ call.pc = "pool"
    /\ \A j \in Jobs : call.jobs[j] \in {"finished", "failed"}
    /\ call' = [call EXCEPT !.pc = "done"]
    /\ UNCHANGED result

NextLegacy ==
    \/ CallProcess
    \/ WorkerStart
    \/ WorkerWriter
    \/ WorkerAcquire
    \/ WorkerDump
    \/ WorkerRelease
    \/ WorkerFinish
    \/ ProcessJoin
    \/ Return

SpecLegacy == Init /\ [][NextLegacy]_vars

\* A write that was started ends, and its finally clause runs.
SpecLegacyFair == SpecLegacy /\ WF_vars(WorkerDump) /\ WF_vars(WorkerRelease)

\* The columns of a disability-weight table as the warehouse returns them.
DisabilityWeightColumns ==
    <<"location_id", "age_group_id", "sex_id", "measure", "healthstate", "healthstate_id">> \o DRAW_COLUMNS

\* The table with one row per age group and sex of the shape, all rows
\* carrying the shape's pair of draws.
DisabilityWeightTable(shape) ==
    [columns |-> shape.columns,
     rows |-> {[location_id |-> shape.location_id, age_group_id |-> a, sex_id |-> x,
                vals |-> [col \in ToSet(DRAW_COLUMNS) |->
                            IF col = DRAW_COLUMNS[1] THEN shape.draws[1] ELSE shape.draws[2]]] :
               a \in shape.ages, x \in shape.sexes}]

\* Tables for the all-ages group alone, with other age groups, and without
\* it; for every set of sex ids, an invalid id included.
DisabilityWeightShapes ==
    [columns : {DisabilityWeightColumns, Tail(DisabilityWeightColumns)},
     location_id : {RequestedLocation, 3},
     ages : {{SPECIAL_AGES.all_ages}, {SPECIAL_AGES.all_ages, 1}, {1}, 1..NumAges},
     sexes : (SUBSET {Male, Female, Combined, 4}) \ {{}},
     draws : {<<0, 0>>, <<Unit \div 2, Unit>>, <<-1, Unit>>, <<Unit, Unit + 1>>, <<NaN, Unit>>}]

CallValidateDisabilityWeight ==
    /\ Idle
    /\ \E entity \in Sequelae, shape \in DisabilityWeightShapes :
            /\ call' = [op |-> "validate_disability_weight", data |-> DisabilityWeightTable(shape),
                        entity |-> entity, location_id |-> RequestedLocation]
            /\ result' = validate_disability_weight(DisabilityWeightTable(shape), entity,
                                                    RequestedLocation)

NextDisabilityWeight == CallValidateDisabilityWeight \/ Return

SpecDisabilityWeight == Init /\ [][NextDisabilityWeight]_vars

\* The columns of an exposure standard deviation table.
ExposureSdColumns ==
    DRAW_COLUMNS \o DEMOGRAPHIC_COLUMNS \o <<"rei_id", "modelable_entity_id", "measure_id", "metric_id">>

\* The table with one row per combination of the shape's id values; the rows
\* of the youngest age group carry the pair `first`, the others `rest`.
ExposureSdTable(shape) ==
    [columns |-> shape.columns,
     rows |-> {[measure_id |-> shape.measure_id, metric_id |-> shape.metric_id,
                location_id |-> shape.location_id, year_id |-> y, age_group_id |-> a, sex_id |-> x,
                vals |-> [col \in ToSet(DRAW_COLUMNS) |->
                            LET pair == IF a = 1 THEN shape.first ELSE shape.rest
                            IN  IF col = DRAW_COLUMNS[1] THEN pair[1] ELSE pair[2]]] :
               y \in shape.years, a \in shape.ages, x \in shape.sexes}]

ExposureSdBase ==
    [columns |-> ExposureSdColumns, measure_id |-> MEASURES.Continuous, metric_id |-> METRICS.Rate,
     years |-> EstimationYears, ages |-> 1..NumAges, sexes |-> {Male, Female},
     location_id |-> RequestedLocation, first |-> <<Unit, Unit>>, rest |-> <<Unit, Unit>>]

\* The well-formed table and its variants, each departing from it in one
\* respect, with every pair of draws for the youngest and the other groups.
ExposureSdShapes ==
    LET variants ==
            {ExposureSdBase}
                \cup {[ExposureSdBase EXCEPT !.columns = cs] :
                        cs \in {Tail(ExposureSdColumns), ExposureSdColumns \o <<"cause_id">>}}
                \cup {[ExposureSdBase EXCEPT !.measure_id = MEASURES.Deaths]}
                \cup {[ExposureSdBase EXCEPT !.metric_id = METRICS.Number]}
                \cup {[ExposureSdBase EXCEPT !.ages = as] : as \in {2..NumAges, {}}}
                \cup {[ExposureSdBase EXCEPT !.sexes = {Male}]}
                \cup {[ExposureSdBase EXCEPT !.location_id = 3]}
        draws == {<<Unit, Unit>>, <<0, 0>>, <<NaN, Unit>>, <<Unit, Inf>>, <<-1, Unit>>}
    IN  {[v EXCEPT !.first = f, !.rest = r] : v \in variants, f \in draws, r \in draws}

CallValidateExposureStandardDeviation ==
    /\ Idle
    /\ \E shape \in ExposureSdShapes, exposure \in ExposureTables,
          entity \in {e \in PafEntities : e.distribution = "ensemble"} :
            /\ call' = [op |-> "validate_exposure_standard_deviation", data |-> ExposureSdTable(shape),
                        entity |-> entity, location_id |-> RequestedLocation, exposure |-> exposure,
                        estimation_years |-> EstimationYears]
            /\ result' = validate_exposure_standard_deviation(ExposureSdTable(shape), entity,
                                RequestedLocation, exposure, EstimationYears)

NextExposureSd == CallValidateExposureStandardDeviation \/ Return

SpecExposureSd == Init /\ [][NextExposureSd]_vars

(***************************************************************************)
(* ArtifactBuilder (vivarium_inputs.data_artifact.builder): a builder      *)
(* object between start_processing and end_processing.                     *)
(*                                                                         *)
(* call.artifact holds the keys written so far, call.processed_entities    *)
(* the builder's set; call.runs and call.failed count, per (type, name)    *)
(* pair, the _worker calls started and the ones that raised.               *)
(***************************************************************************)
BuilderPairs == {<<"cause", "a">>, <<"risk_factor", "b">>}

BuilderMeasures == {"exposure", "restrictions"}

\* Entity keys type.name.measure.
BuilderKeys == {<<p[1], p[2], m>> : p \in BuilderPairs, m \in BuilderMeasures}

NoKey == <<"none", "none", "none">>

IsBuilder == call.op = "ArtifactBuilder"

KeyPair(key) == <<key[1], key[2]>>

\* start_processing(path, append, location, modeled_causes): with append the
\* file keeps the keys it already holds.
BuilderStartProcessing ==
    /\ Idle
    /\ \E artifact \in SUBSET BuilderKeys :
            call' = [op |-> "ArtifactBuilder", pc |-> "ready", artifact |-> artifact,
                     processed_entities |-> {}, key |-> NoKey, entry |-> "none", todo |-> {},
                     runs |-> [p \in BuilderPairs |-> 0], failed |-> [p \in BuilderPairs |-> 0]]
    /\ result' = Ok

\* The body of process(entity_key), entered from `entry`: _worker is called
\* unless the pair is in processed_entities.  The loader will yield the
\* measures `todo`.
process_body(key, entry, todo) ==
    IF KeyPair(key) \notin call.processed_entities
    THEN [call EXCEPT !.pc = "worker", !.key = key, !.entry = entry, !.todo = todo,
                      !.runs[KeyPair(key)] = @ + 1]
    ELSE [call EXCEPT !.pc = IF entry = "load" THEN "load" ELSE "ready",
                      !.key = IF entry = "load" THEN key ELSE NoKey, !.entry = "none"]

\* builder.process(entity_key).
BuilderProcess ==
    /\ IsBuilder
    /\ call.pc = "ready"
    /\ \E key \in BuilderKeys, todo \in SUBSET BuilderMeasures :
            /\ KeyPair(key) \notin call.processed_entities => call.runs[KeyPair(key)] < MaxRuns
            /\ call' = process_body(key, "process", todo)
    /\ result' = Ok

\* builder.load(entity_key), up to the call of artifact.load.
BuilderLoad ==
    /\ IsBuilder
    /\ call.pc = "ready"
    /\ \E key \in BuilderKeys, todo \in SUBSET BuilderMeasures :
            /\ (key \notin call.artifact /\ KeyPair(key) \notin call.processed_entities)
                    => call.runs[KeyPair(key)] < MaxRuns
            /\ call' = IF key \notin call.artifact
                       THEN process_body(key, "load", todo)
                       ELSE [call EXCEPT !.pc = "load", !.key = key]
    /\ result' = Ok

\* _worker: the loader yields one more measure and artifact.write stores it.
BuilderWorkerWrite ==
    /\ IsBuilder
    /\ call.pc = "worker"
    /\ \E measure \in call.todo :
            call' = [call EXCEPT !.artifact = @ \cup {<<call.key[1], call.key[2], measure>>},
                                 !.todo = @ \ {measure}]
    /\ UNCHANGED result

\* _worker: the loader or artifact.write raises; the exception leaves
\* process (and load) and reaches the caller.
BuilderWorkerRaise ==
    /\ IsBuilder
    /\ call.pc = "worker"
    /\ call' = [call EXCEPT !.pc = "ready", !.key = NoKey, !.entry = "none", !.todo = {},
                            !.failed[KeyPair(call.key)] = @ + 1]
    /\ result' = Raise("Exception")

\* _worker returns: the loader is exhausted.
BuilderWorkerReturn ==
    /\ IsBuilder
    /\ call.pc = "worker"
    /\ call.todo = {}
    /\ call' = [call EXCEPT !.pc = "add"]
    /\ UNCHANGED result

\* Mutant of BuilderAdd: the pair is not recorded.
BuilderAdd_forgets ==
    /\ IsBuilder
    /\ call.pc = "add"
    /\ call' = [call EXCEPT !.pc = IF call.entry = "load" THEN "load" ELSE "ready",
                            !.key = IF call.entry = "load" THEN call.key ELSE NoKey,
                            !.entry = "none"]
    /\ UNCHANGED result

\* self.processed_entities.add((entity_key.type, entity_key.name)); process
\* returns.
BuilderAdd ==
    /\ IsBuilder
    /\ call.pc = "add"
    /\ call' = [call EXCEPT !.pc = IF call.entry = "load" THEN "load" ELSE "ready",
                            !.key = IF call.entry = "load" THEN call.key ELSE NoKey,
                            !.entry = "none",
                            !.processed_entities = @ \cup {KeyPair(call.key)}]
    /\ UNCHANGED result

\* return self.artifact.load(entity_key): a key the artifact lacks raises.
BuilderArtifactLoad ==
    /\ IsBuilder
    /\ call.pc = "load"
    /\ call' = [call EXCEPT !.pc = "ready", !.key = NoKey]
    /\ result' = IF call.key \in call.artifact THEN Ok ELSE Raise("ArtifactException")

\* end_processing(): the builder is not used any more.
BuilderEndProcessing ==
    /\ IsBuilder
    /\ call.pc = "ready"
    /\ call' = [call EXCEPT !.pc = "done"]
    /\ result' = Ok

NextBuilder ==
    \/ BuilderStartProcessing \/ BuilderProcess \/ BuilderLoad \/ BuilderWorkerWrite
    \/ BuilderWorkerRaise \/ BuilderWorkerReturn \/ BuilderAdd \/ BuilderArtifactLoad
    \/ BuilderEndProcessing \/ Return

SpecBuilder == Init /\ [][NextBuilder]_vars

(***************************************************************************)
(* Simulation-side validation (vivarium_inputs.validation.sim): calls.     *)
(***************************************************************************)
\* Rows of a simulation table: a sex and a value.
SimRows == {[sex |-> x, value |-> v] : x \in {"Male", "Female"}, v \in {0, Unit, 2 * Unit}}

SimTables == SubsetsUpTo(SimRows, MaxRows)

SimFillValues == {0, Unit}

CallSimCheckSexRestrictions ==
    /\ Idle
    /\ \E data \in SimTables, male_only \in BOOLEAN, female_only \in BOOLEAN,
          fill_value \in SimFillValues :
            /\ call' = [op |-> "_check_sex_restrictions", data |-> data, male_only |-> male_only,
                        female_only |-> female_only, fill_value |-> fill_value]
            /\ result' = _check_sex_restrictions(data, male_only, female_only, fill_value)

NextSim == CallSimCheckSexRestrictions \/ Return

SpecSim == Init /\ [][NextSim]_vars

\* The two dispatchers together.
NextDispatch == CallCheckMetadata \/ CallValidateRawData \/ CallValidateRawDataAgain \/ Return

SpecDispatch == Init /\ [][NextDispatch]_vars

Next == NextShape \/ NextRestrict \/ NextMeta \/ NextValidate \/ NextPaf \/ NextIncidence \/ NextRaw \/ NextGetData \/ NextLegacy \/ NextDisabilityWeight \/ NextExposureSd \/ NextBuilder \/ NextSim

Spec == Init /\ [][Next]_vars

(***************************************************************************)
(* Column and shape checkers: properties.                                  *)
(***************************************************************************)
IsCheckColumns == call.op = "check_columns"

\* C1: check_columns raises DataAbnormalError for every pair of column lists
\* whose sets differ (a column missing, an extra column, or both at once) and
\* returns silently, whatever the order, when the sets are equal.
C1_ColumnsExactSetEquality ==
    IsCheckColumns =>
        IF ToSet(call.expected) # ToSet(call.actual)
        THEN result.raised = "DataAbnormalError"
        ELSE result = Ok

IsCheckYears(year_type) == call.op = "check_years" /\ call.year_type = year_type

CallDataYears == {r.year_id : r \in call.data}

CallAnnualYears == SetMin(call.estimation_years)..SetMax(call.estimation_years)

\* C2: with the 'annual' policy check_years raises DataAbnormalError whenever
\* a year of [min(estimation_years), max(estimation_years)] is absent from
\* the data, also when the data holds years outside the range, and passes
\* when every year of the range is present.
C2_AnnualMissingYearRaises ==
    IsCheckYears("annual") =>
        IF CallAnnualYears \subseteq CallDataYears
        THEN result.raised = "none"
        ELSE result.raised = "DataAbnormalError"

\* C3: with the 'binned' policy check_years raises DataAbnormalError whenever
\* the data's year set is not exactly estimation_years (a year missing, an
\* extra year, or both at once) and passes only when the two sets are equal.
C3_BinnedExactYears ==
    IsCheckYears("binned") =>
        IF CallDataYears = call.estimation_years
        THEN result.raised = "none"
        ELSE result.raised = "DataAbnormalError"

IsCheckAgeGroupIds == call.op = "check_age_group_ids"

CallDataAges == {r.age_group_id : r \in call.data}

\* The ids of the universe lying, in canonical order, between two ids of S.
Between(S) ==
    {gbd_get_age_group_id[k] : k \in
        {k \in 1..NumAges : \E i, j \in 1..NumAges :
            /\ gbd_get_age_group_id[i] \in S
            /\ gbd_get_age_group_id[j] \in S
            /\ i <= k /\ k <= j}}

ValidContiguous(S) == S \subseteq ToSet(gbd_get_age_group_id) /\ Between(S) \subseteq S

CallRestrictionAges ==
    IF call.restriction_start = None THEN {}
    ELSE {gbd_get_age_group_id[k] : k \in
            {k \in 1..NumAges : \E i, j \in 1..NumAges :
                /\ gbd_get_age_group_id[i] = call.restriction_start
                /\ gbd_get_age_group_id[j] = call.restriction_end
                /\ i <= k /\ k <= j}}

\* C10: check_age_group_ids raises DataAbnormalError exactly when the data's
\* age_group_id set holds an id outside the valid universe or is not a
\* contiguous block of it in canonical order; valid contiguous data that is
\* a strict subset or strict superset of the restriction range only warns.
C10_AgeGroupIdsErrorIffInvalidOrGap ==
    IsCheckAgeGroupIds =>
        /\ result.raised = "DataAbnormalError" <=> ~ValidContiguous(CallDataAges)
        /\ result.warned => result.raised = "none"
        /\ ( /\ CallDataAges # {}
             /\ ValidContiguous(CallDataAges)
             /\ CallRestrictionAges # {}
             /\ \/ ProperSubset(CallDataAges, CallRestrictionAges)
                \/ ProperSubset(CallRestrictionAges, CallDataAges) )
           => result = Warn

\* C10 witness: data with a gap inside the restriction range was rejected.
C10_Witness_GapRaised ==
    /\ IsCheckAgeGroupIds
    /\ CallDataAges = {1, 2, 4, 5}
    /\ call.restriction_start = 1 /\ call.restriction_end = 5
    /\ result.raised = "DataAbnormalError"

(***************************************************************************)
(* Restriction enforcers: properties.                                      *)
(***************************************************************************)
IsCheckSexRestrictions == call.op = "check_sex_restrictions"

RowIsZero(r) == \A c \in ToSet(DRAW_COLUMNS) : r.vals[c] = 0

\* Some value column of the row holds a number other than 0.
RowHasNonZero(r) == \E c \in ToSet(DRAW_COLUMNS) : r.vals[c] \notin {0, NaN, Inf}

\* The rows of one sex are present, none missing or infinite, not all zero.
HoldsData(rows) ==
    /\ rows # {}
    /\ \A r \in rows : \A c \in ToSet(DRAW_COLUMNS) : r.vals[c] \notin {NaN, Inf}
    /\ \E r \in rows : RowHasNonZero(r)

\* No value of the table is missing or infinite.
AllNumbers(data) == \A r \in data : \A c \in ToSet(DRAW_COLUMNS) : r.vals[c] \notin {NaN, Inf}

\* The restricted-sex zero-fill rule for the sex `only` and the other `excluded`.
SexZeroFill(only, excluded) ==
    LET rows_only == {r \in call.data : r.sex_id = only}
        rows_excluded == {r \in call.data : r.sex_id = excluded}
    IN  /\ (\E r \in rows_excluded : RowHasNonZero(r)) => result.raised = "DataAbnormalError"
        /\ ((\A r \in call.data : r.sex_id # only => RowIsZero(r)) /\ HoldsData(rows_only))
               => result = Ok

\* C4: with male_only=True check_sex_restrictions raises DataAbnormalError
\* when a female row carries a non-zero value in some value column, and
\* passes when every female row is all zero and the male rows hold data;
\* symmetric for female_only=True.
C4_SexRestrictionZeroFill ==
    (IsCheckSexRestrictions /\ AllNumbers(call.data)) =>
        /\ (call.male_only /\ ~call.female_only) => SexZeroFill(Male, Female)
        /\ (call.female_only /\ ~call.male_only) => SexZeroFill(Female, Male)

IsCheckMortMorbFlags == call.op = "check_mort_morb_flags"

BothZero(r) == r.morbidity = 0 /\ r.mortality = 0

BothOne(r) == r.morbidity = 1 /\ r.mortality = 1

MorbidityOnly(r) == r.morbidity = 1 /\ r.mortality = 0

MortalityOnly(r) == r.morbidity = 0 /\ r.mortality = 1

\* C8: check_mort_morb_flags raises DataAbnormalError, whatever yld_only and
\* yll_only are, whenever some row has mortality=0 and morbidity=0, and
\* whenever rows with both flags 1 coexist with rows with exactly one flag.
C8_FlagsBothZeroOrMixtureRaise ==
    IsCheckMortMorbFlags =>
        /\ (\E r \in call.data : BothZero(r)) => result.raised = "DataAbnormalError"
        /\ ( /\ \E r \in call.data : BothOne(r)
             /\ \E r \in call.data : MorbidityOnly(r) \/ MortalityOnly(r) )
           => result.raised = "DataAbnormalError"

\* C8 witness: both-flags rows next to morbidity-only rows were rejected for
\* a cause with a yld_only restriction.
C8_Witness_MixtureRaised ==
    /\ IsCheckMortMorbFlags
    /\ call.data = {[morbidity |-> 1, mortality |-> 1], [morbidity |-> 1, mortality |-> 0]}
    /\ call.yld_only /\ ~call.yll_only
    /\ result.raised = "DataAbnormalError"

\* C9: in a table where every row has exactly one flag set, the call raises
\* DataAbnormalError when all rows are morbidity-only and the cause is not
\* yld_only, when all rows are mortality-only and the cause is not yll_only,
\* and when both kinds of rows are present and the cause is yld_only or
\* yll_only; it passes in every other such case.
C9_SingleFlagRowsAgainstRestrictions ==
    ( /\ IsCheckMortMorbFlags
      /\ call.data # {}
      /\ \A r \in call.data : MorbidityOnly(r) \/ MortalityOnly(r) )
    => LET all_morbidity == \A r \in call.data : MorbidityOnly(r)
           all_mortality == \A r \in call.data : MortalityOnly(r)
           must_raise ==
               \/ all_morbidity /\ ~call.yld_only
               \/ all_mortality /\ ~call.yll_only
               \/ ~all_morbidity /\ ~all_mortality /\ (call.yld_only \/ call.yll_only)
       IN  IF must_raise THEN result.raised = "DataAbnormalError" ELSE result = Ok

\* C9 witness: morbidity-only rows were accepted for a yld_only cause.
C9_Witness_MorbidityOnlyPassed ==
    /\ IsCheckMortMorbFlags
    /\ call.data = {[morbidity |-> 1, mortality |-> 0]}
    /\ call.yld_only /\ ~call.yll_only
    /\ result = Ok

(***************************************************************************)
(* Metadata consistency checker: properties.                               *)
(***************************************************************************)
IsCheckMetadata == call.op = "check_metadata"

\* The ids of the canonical ordering from start to end, none without start.
AgeRange(start, end) ==
    IF start = None THEN {}
    ELSE {gbd_get_age_group_id[k] : k \in
            {k \in 1..NumAges : \E i, j \in 1..NumAges :
                /\ gbd_get_age_group_id[i] = start
                /\ gbd_get_age_group_id[j] = end
                /\ i <= k /\ k <= j}}

\* The values of the {measure}_exists flags the call's entity carries.
CallExistsFlags ==
    LET e == call.entity
        m == call.measure
    IN  IF e.kind = "sequela"
        THEN (IF m \in SequelaRangeMeasures THEN {e.flags[m].exists} ELSE {e.healthstate.exists[m]})
        ELSE IF e.kind = "cause" THEN {e.flags[m].exists}
        ELSE IF e.kind = "risk_factor" /\ m \in RiskFlagMeasures THEN {e.flags[m].exists}
        ELSE IF \/ e.kind = "risk_factor" /\ m = "population_attributable_fraction"
                \/ e.kind = "etiology"
        THEN {e.population_attributable_fraction_yll_exists,
              e.population_attributable_fraction_yld_exists}
        ELSE {}

CallIsCustomRisk == call.entity.kind = "risk_factor" /\ call.entity.distribution = "custom"

CallIsYllOnlyCause == call.entity.kind = "cause" /\ call.entity.restrictions.yll_only

\* The cause's YLL restriction ages strictly contain its YLD restriction ages.
CallYllBroaderThanYld ==
    /\ call.entity.kind = "cause"
    /\ LET r == call.entity.restrictions
       IN  ProperSubset(AgeRange(r.yld_age_group_id_start, r.yld_age_group_id_end),
                        AgeRange(r.yll_age_group_id_start, r.yll_age_group_id_end))

C7_NoneFlagRaisesFalseFlagWarns ==
    ( /\ IsCheckMetadata
      /\ CallExistsFlags # {}
      /\ ~CallIsCustomRisk
      /\ ~CallIsYllOnlyCause
      /\ ~CallYllBroaderThanYld )
    => /\ "None" \in CallExistsFlags => result.raised = "InvalidQueryError"
       /\ ("False" \in CallExistsFlags /\ "None" \notin CallExistsFlags) => result = Warn

(***************************************************************************)
(* Measure-specific validators: properties.                                *)
(***************************************************************************)
IsValidateRelativeRisk == call.op = "validate_relative_risk"

CallMaxDraw == SetMax({r.vals[c] : r \in call.data.rows, c \in ToSet(DRAW_COLUMNS)})

\* The call's table is well formed but for the size of its largest draw.
CallTableWellFormed == call.data = RRTable([BaseShape EXCEPT !.hi = CallMaxDraw])

\* C5: validate_relative_risk bounds relative-risk draws above by 20 when
\* the entity's distribution is categorical (dichotomous, ordered_polytomous,
\* unordered_polytomous) and by 5 when it is continuous (ensemble,
\* lognormal, normal).
C5_RelativeRiskUpperBound ==
    (IsValidateRelativeRisk /\ CallTableWellFormed) =>
        LET bound == IF call.entity.distribution \in CategoricalDistributions
                     THEN 20 * Unit ELSE 5 * Unit
        IN  IF CallMaxDraw > bound
            THEN result.raised = "DataAbnormalError"
            ELSE result.raised = "none"

(***************************************************************************)
(* Cause-like measures: properties.                                        *)
(***************************************************************************)
IsValidatePrevalence == call.op = "validate_prevalence"

\* Every draw of the call's table.
CallDraws == {r.vals[c] : r \in call.data.rows, c \in ToSet(DRAW_COLUMNS)}

\* Some draw of the call's table is a number below 0 or above 1.
CallDrawOutsideUnitInterval == \E v \in CallDraws : v \notin {NaN, Inf} /\ (v < 0 \/ v > Unit)

\* Every draw of the call's table is a number in [0, 1].
CallDrawsInUnitInterval == \A v \in CallDraws : v \notin {NaN, Inf} /\ v >= 0 /\ v <= Unit

\* The causes whose restrictions govern the call's entity.
CallCauses ==
    IF call.entity.kind = "cause" THEN {call.entity}
    ELSE {c \in causes : call.entity.gbd_id \in c.sequelae}

\* The age groups of the YLD restriction range of the cause c.
YldRange(c) ==
    AgeRange(c.restrictions.yld_age_group_id_start, c.restrictions.yld_age_group_id_end)

\* The table has a row for every age group of the range for both sexes.
CallCoversBothSexes(range) ==
    \A a \in range : \A x \in {Male, Female} :
        \E r \in call.data.rows : r.age_group_id = a /\ r.sex_id = x

\* The table has the schema of the measure and only the measure's id.
\* The table of the call carries every value column.
CallHasValueColumns == ToSet(DRAW_COLUMNS) \subseteq ToSet(call.data.columns)

CallHasSchema(measure) ==
    /\ ToSet(call.data.columns) =
           {"measure_id", "metric_id", kind_id_column(call.entity.kind)}
               \cup ToSet(DRAW_COLUMNS) \cup ToSet(DEMOGRAPHIC_COLUMNS)
    /\ {r.measure_id : r \in call.data.rows} = {MEASURES[measure]}

CallIdsInOrder ==
    LET rows == call.data.rows
    IN  /\ {r.metric_id : r \in rows} = {METRICS.Rate}
        /\ SetMin(call.estimation_years)..SetMax(call.estimation_years) \subseteq {r.year_id : r \in rows}
        /\ \E l \in ToSet(gbd_get_location_path_to_global[call.location_id]) :
               {r.location_id : r \in rows} = {l}
        /\ ValidContiguous({r.age_group_id : r \in rows})
        /\ {r.sex_id : r \in rows} \subseteq {Male, Female, Combined}

\* Each sex has some non-zero draw in a row of the range.
CallNonZeroForBothSexes(range) ==
    \A x \in {Male, Female} :
        \E r \in call.data.rows : r.age_group_id \in range /\ r.sex_id = x /\ RowHasNonZero(r)

IsValidateDeaths == call.op = "validate_deaths"

\* The population count joined to the row, if the population table has
\* the row's (age_group, year, sex) cell.
JoinedPopulation(r) ==
    {p.population : p \in {p \in call.population :
        /\ p.age_group_id = r.age_group_id /\ p.year_id = r.year_id /\ p.sex_id = r.sex_id}}

\* Some draw exceeds the population count of its cell.
CallDrawAbovePopulation ==
    \E r \in call.data.rows : \E c \in ToSet(DRAW_COLUMNS) : \E n \in JoinedPopulation(r) :
        r.vals[c] \notin {NaN, Inf} /\ r.vals[c] > n

\* The age groups of the YLL restriction range of the cause c.
YllRange(c) ==
    AgeRange(c.restrictions.yll_age_group_id_start, c.restrictions.yll_age_group_id_end)

\* But for the size of its draws the deaths table is one the validator
\* accepts: schema, ids in order for counts, the YLL range covered for both
\* sexes with non-zero draws, no draw missing.
CallDeathsTableInOrder ==
    LET rows == call.data.rows
    IN  /\ CallHasSchema("Deaths")
        /\ {r.metric_id : r \in rows} = {METRICS.Number}
        /\ SetMin(call.estimation_years)..SetMax(call.estimation_years) \subseteq {r.year_id : r \in rows}
        /\ \E l \in ToSet(gbd_get_location_path_to_global[call.location_id]) :
               {r.location_id : r \in rows} = {l}
        /\ ValidContiguous({r.age_group_id : r \in rows})
        /\ {r.sex_id : r \in rows} \subseteq {Male, Female, Combined}
        /\ YllRange(call.entity) # {}
        /\ CallCoversBothSexes(YllRange(call.entity))
        /\ CallNonZeroForBothSexes(YllRange(call.entity))
        /\ AllNumbers(rows)

\* C12: in validate_deaths a draw that exceeds the joined population count
\* of its (age_group, year, sex) cell only emits a warning and the validator
\* still returns normally, while a draw below 0 raises DataAbnormalError
\* (in a table with every draw column, none of whose draws is missing).
C12_DeathsPopulationBoundIsSoft ==
    IsValidateDeaths =>
        /\ (CallDeathsTableInOrder /\ CallDrawAbovePopulation /\ (\A v \in CallDraws : v >= 0))
               => (result.raised = "none" /\ result.warned)
        /\ (AllNumbers(call.data.rows) /\ CallHasValueColumns /\ \E v \in CallDraws : v < 0)
               => result.raised = "DataAbnormalError"

\* A deaths table in order whose draws exceed the population was accepted
\* with a warning.
C12_Witness_AbovePopulationWarned ==
    /\ IsValidateDeaths
    /\ CallDeathsTableInOrder
    /\ CallDrawAbovePopulation
    /\ \A v \in CallDraws : v >= 0
    /\ result = Warn

IsValidateExposure == call.op = "validate_exposure"

\* The (location, year, age_group, sex) groups of the call's table.
CallDemographicGroups ==
    {<<r.location_id, r.year_id, r.age_group_id, r.sex_id>> : r \in call.data.rows}

\* The rows of one demographic group, one per category.
CallGroupRows(k) ==
    {r \in call.data.rows : <<r.location_id, r.year_id, r.age_group_id, r.sex_id>> = k}

\* The draws of the column c in the rows of the group k, as a bag.
CallGroupDraws(k, c) ==
    [v \in {r.vals[c] : r \in CallGroupRows(k)} |->
        Cardinality({r \in CallGroupRows(k) : r.vals[c] = v})]

\* The sum of a bag of numbers.
RECURSIVE BagSum(_)
BagSum(b) ==
    IF DOMAIN b = {} THEN 0
    ELSE LET v == CHOOSE w \in DOMAIN b : TRUE
         IN  v * b[v] + BagSum([w \in DOMAIN b \ {v} |-> b[w]])

\* In every demographic group each draw column sums to 1 over the categories.
CallCategoriesSumToOne ==
    \A k \in CallDemographicGroups : \A c \in ToSet(DRAW_COLUMNS) :
        BagSum(CallGroupDraws(k, c)) = Unit

\* The table holds data: some row, no draw missing or infinite, not all zero.
CallDataExist == HoldsData(call.data.rows) /\ CallHasValueColumns

\* The exposure table of the call is one the checks before the categorical
\* ones accept: schema, ids in order, both sexes, draws in [0, 1].
CallExposureTableInOrder ==
    LET rows == call.data.rows
    IN  /\ ToSet(call.data.columns) =
               {"rei_id", "modelable_entity_id", "parameter", "measure_id", "metric_id"}
                   \cup ToSet(DRAW_COLUMNS) \cup ToSet(DEMOGRAPHIC_COLUMNS)
        /\ {r.measure_id : r \in rows} = {MEASURES.Proportion}
        /\ {r.metric_id : r \in rows} = {METRICS.Rate}
        /\ {r.year_id : r \in rows} = call.estimation_years
        /\ {r.location_id : r \in rows} = {call.location_id}
        /\ \A p \in {r.parameter : r \in rows} :
               /\ ValidContiguous({r.age_group_id : r \in {q \in rows : q.parameter = p}})
               /\ {r.sex_id : r \in {q \in rows : q.parameter = p}} = {Male, Female}
               /\ \A x \in {Male, Female} : HoldsData({r \in rows : r.parameter = p /\ r.sex_id = x})
        /\ CallDrawsInUnitInterval

\* C13: for an entity with a categorical distribution, validate_exposure
\* raises DataAbnormalError on a table that holds data unless, in every
\* (location, year, age_group, sex) group, each draw column summed over all
\* category rows equals 1 (a group summing to 0.9 raises); a table in order
\* whose groups all sum to 1 is accepted.
C13_CategoricalExposureSumsToOne ==
    (IsValidateExposure /\ call.entity.distribution \in CategoricalDistributions) =>
        /\ (CallDataExist /\ ~CallCategoriesSumToOne) => result.raised = "DataAbnormalError"
        /\ (CallExposureTableInOrder /\ CallCategoriesSumToOne) => result.raised = "none"

\* An exposure table in order but for one group summing to 0.9 was rejected.
C13_Witness_SumShortRaised ==
    /\ IsValidateExposure
    /\ call.entity.distribution \in CategoricalDistributions
    /\ call.data = ExposureTable([ExposureBase EXCEPT !.draws = ExposureSumShort])
    /\ \E k \in CallDemographicGroups : BagSum(CallGroupDraws(k, DRAW_COLUMNS[1])) = Unit - 1
    /\ result.raised = "DataAbnormalError"

(***************************************************************************)
(* Population attributable fractions: properties.                          *)
(***************************************************************************)
IsValidatePaf == call.op = "validate_population_attributable_fraction"

\* The table holds rows of the measure for a cause with the restriction flag.
CallHoldsRowsOfExcludedMeasure ==
    \E r \in call.data.rows : \E c \in causes :
        /\ c.gbd_id = r.cause_id
        /\ \/ c.restrictions.yld_only /\ r.measure_id = MEASURES.YLLs
           \/ c.restrictions.yll_only /\ r.measure_id = MEASURES.YLDs

\* C14: validate_population_attributable_fraction raises DataAbnormalError
\* whenever the data (holding data of known causes) has YLL rows for an
\* affected cause restricted to yld_only, or YLD rows for an affected cause
\* restricted to yll_only.
C14_PafExcludedMeasureRaises ==
    (IsValidatePaf /\ CallDataExist /\ CallHoldsRowsOfExcludedMeasure)
        => result.raised = "DataAbnormalError"

\* A PAF table in order but for YLD rows of the yll_only cause was rejected.
C14_Witness_YldRowsOfYllOnlyCauseRaised ==
    /\ IsValidatePaf
    /\ call.data = PafTable([PafBase EXCEPT !.cause_measures = {<<4, MEASURES.YLDs>>}])
    /\ result.raised = "DataAbnormalError"

IsValidateEtiologyPaf == call.op = "validate_etiology_population_attributable_fraction"

\* C15: validate_etiology_population_attributable_fraction raises
\* DataAbnormalError whenever the data (holding data, for an etiology of
\* some cause) has YLL rows for a cause restricted to yld_only, and
\* whenever it has YLD rows for a cause restricted to yll_only.
C15_EtiologyPafExcludedMeasureRaises ==
    (IsValidateEtiologyPaf /\ CallDataExist /\ causes_of_etiology(call.entity) # {}
         /\ CallHoldsRowsOfExcludedMeasure)
        => result.raised = "DataAbnormalError"

IsCheckPafRrExposureAgeGroups == call.op = "check_paf_rr_exposure_age_groups"

\* The cause and the measure of the call's PAF rows, and their age groups.
CallPafCause == cause_by_id((CHOOSE r \in call.paf : TRUE).cause_id)

CallPafMeasure == (CHOOSE r \in call.paf : TRUE).measure_id

CallPafAges == {r.age_group_id : r \in call.paf}

\* The cause's restriction range for the measure.
CallPafCauseRange ==
    IF CallPafMeasure = MEASURES.YLLs THEN YllRange(CallPafCause) ELSE YldRange(CallPafCause)

\* The relative-risk rows of the cause that count for the measure.
CallPafRelativeRisk ==
    {r \in call.rr :
        /\ r.cause_id = CallPafCause.gbd_id
        /\ IF CallPafMeasure = MEASURES.YLLs THEN r.morbidity = 0 /\ r.mortality = 1
           ELSE r.morbidity = 1}

CallIsContinuous == call.entity.distribution \in ContinuousDistributions

\* The age groups whose exposure lies beyond the tmrel of the risk.
CallExposedAges ==
    LET tmrel == (call.entity.tmred.max + call.entity.tmred.min) \div 2
    IN  {r.age_group_id : r \in {q \in call.exposure : \E c \in ToSet(DRAW_COLUMNS) :
            IF call.entity.tmred.inverted THEN q.vals[c] < tmrel ELSE q.vals[c] > tmrel}}

\* The age groups with non-trivial relative risk: a draw other than 1 for
\* a categorical risk, exposure beyond the tmrel for a continuous one.
CallNonTrivialAges ==
    IF CallIsContinuous
    THEN {r.age_group_id : r \in CallPafRelativeRisk} \cap CallExposedAges
    ELSE {r.age_group_id : r \in {q \in CallPafRelativeRisk :
            \E c \in ToSet(DRAW_COLUMNS) : q.vals[c] # Unit}}

\* The required range: the cause's range narrowed to the span of the age
\* groups with non-trivial relative risk.
CallPafRequiredAges ==
    IF CallNonTrivialAges = {} THEN {}
    ELSE {a \in CallPafCauseRange :
            SetMin(CallNonTrivialAges) <= a /\ a <= SetMax(CallNonTrivialAges)}

\* The age groups with relative-risk (and, for a continuous risk, exposure) data.
CallPafCoveredAges ==
    IF CallIsContinuous
    THEN {r.age_group_id : r \in CallPafRelativeRisk} \cap {r.age_group_id : r \in call.exposure}
    ELSE {r.age_group_id : r \in CallPafRelativeRisk}

\* C16: in check_paf_rr_exposure_age_groups, for one cause and one measure,
\* a PAF table that lacks an age group of the required range (the cause's
\* restriction range narrowed to the age groups with non-trivial relative
\* risk) raises DataAbnormalError, whereas PAF rows for age groups inside
\* the cause restriction range but without relative-risk/exposure coverage
\* do not raise (they only emit a warning).
C16_PafMissingRaisesExtraWarns ==
    IsCheckPafRrExposureAgeGroups =>
        /\ ~(CallPafRequiredAges \subseteq CallPafAges) => result.raised = "DataAbnormalError"
        /\ (/\ CallPafAges \subseteq CallPafCauseRange
            /\ CallPafRequiredAges # {}
            /\ CallPafRequiredAges \subseteq CallPafAges
            /\ CallPafAges \cap (CallPafCauseRange \ CallPafCoveredAges) # {})
               => result.raised = "none"

(***************************************************************************)
(* check_age_restrictions: properties.                                     *)
(***************************************************************************)
IsCheckAgeRestrictions == call.op = "check_age_restrictions"

\* The rows of the call's table whose age group lies in the expected range.
CallRowsInRange ==
    {r \in call.data : r.age_group_id \in ToSet(get_restriction_age_ids(call.age_group_id_start, call.age_group_id_end))}

\* C19: check_age_restrictions raises DataAbnormalError whenever the rows
\* inside the expected age range hold no non-missing, non-zero value, whether
\* the error flag is True or False.
C19_AllMissingAlwaysRaises ==
    (IsCheckAgeRestrictions /\ ~HoldsData(CallRowsInRange)) => result.raised = "DataAbnormalError"

\* The rows of the call's table with the given sex id.
CallRowsOfSex(x) == {r \in call.data : r.sex_id = x}

\* The call names neither sex restriction.
CallHasNoSexRestriction == IsCheckSexRestrictions /\ ~call.male_only /\ ~call.female_only

\* The data the unrestricted case asks for: both sexes when the male and the
\* female id are both present, else the combined-sex rows.
CallHoldsDataForBothSexes ==
    IF {Male, Female} \subseteq {r.sex_id : r \in call.data}
    THEN HoldsData(CallRowsOfSex(Male)) /\ HoldsData(CallRowsOfSex(Female))
    ELSE HoldsData(CallRowsOfSex(Combined))

\* C20: with neither male_only nor female_only, check_sex_restrictions raises
\* DataAbnormalError unless the data holds non-missing, non-zero values for
\* both the male and the female rows or, when the two ids are not both
\* present, for the combined-sex rows; otherwise it returns without warning.
C20_NoSexRestrictionNeedsBothSexes ==
    CallHasNoSexRestriction =>
        /\ ~CallHoldsDataForBothSexes => result.raised = "DataAbnormalError"
        /\ CallHoldsDataForBothSexes => result = Ok

\* One sex has values and the other only zeros: the call raised.
C20_Witness_FemaleRowsAllZeroRaised ==
    /\ CallHasNoSexRestriction
    /\ HoldsData(CallRowsOfSex(Male))
    /\ CallRowsOfSex(Female) # {}
    /\ ~HoldsData(CallRowsOfSex(Female))
    /\ result.raised = "DataAbnormalError"

(***************************************************************************)
(* validate_incidence: order of the checks.                                *)
(***************************************************************************)
IsValidateIncidence == call.op = "validate_incidence"

\* The restrictions validate_incidence looks up for the call's entity.
CallYldRestrictions ==
    IF call.entity.kind = "cause" THEN call.entity.restrictions
    ELSE (CHOOSE c \in causes_of_sequela(call.entity) : TRUE).restrictions

NumIncidenceChecks == 13

\* The outcome of the i-th statement of validate_incidence, top-down, run on
\* its own on the call's table.
CallIncidenceCheck(i) ==
    CASE i = 1 -> check_data_exist_table(call.data, TRUE, DRAW_COLUMNS)
      [] i = 2 -> check_columns(<<"measure_id", "metric_id", kind_id_column(call.entity.kind)>>
                                    \o DRAW_COLUMNS \o DEMOGRAPHIC_COLUMNS, call.data.columns)
      [] i = 3 -> check_measure_id(call.data.rows, {"Incidence"}, TRUE)
      [] i = 4 -> check_metric_id(call.data.rows, "rate")
      [] i = 5 -> check_years(call.data.rows, "annual", call.estimation_years)
      [] i = 6 -> check_location(call.data.rows, call.location_id)
      [] i = 7 -> IF call.entity.kind # "cause" /\ causes_of_sequela(call.entity) = {}
                  THEN Raise("IndexError") ELSE Ok
      [] i = 8 -> check_age_group_ids(call.data.rows, CallYldRestrictions.yld_age_group_id_start,
                                      CallYldRestrictions.yld_age_group_id_end)
      [] i = 9 -> check_sex_ids(call.data.rows, TRUE, TRUE, FALSE)
      [] i = 10 -> check_age_restrictions(call.data.rows, CallYldRestrictions.yld_age_group_id_start,
                                          CallYldRestrictions.yld_age_group_id_end, DRAW_COLUMNS, TRUE)
      [] i = 11 -> check_sex_restrictions(call.data.rows, CallYldRestrictions.male_only,
                                          CallYldRestrictions.female_only, DRAW_COLUMNS)
      [] i = 12 -> check_value_columns_boundary(call.data.rows, 0 * Unit, "lower", DRAW_COLUMNS, TRUE,
                                                "DataAbnormalError")
      [] i = 13 -> check_value_columns_boundary(call.data.rows, MAX_INCIDENCE * Unit, "upper",
                                                DRAW_COLUMNS, TRUE, "None")

\* The position of the first statement, from i on, that raises; one past the
\* last when none does.
RECURSIVE FirstRaising(_)
FirstRaising(i) ==
    IF i > NumIncidenceChecks THEN i
    ELSE IF CallIncidenceCheck(i).raised # "none" THEN i
    ELSE FirstRaising(i + 1)

\* C18: the checks of a measure validator run in a fixed top-down order: the
\* call raises exactly the error of the first check that raises, whatever
\* warnings the checks before it emitted, and it carries the warnings of
\* every check up to that one; when no check raises, it returns with the
\* warnings of all of them.
C18_ChecksRunInOrder ==
    IsValidateIncidence =>
        LET k == FirstRaising(1)
            ran == 1..(IF k > NumIncidenceChecks THEN NumIncidenceChecks ELSE k)
        IN  /\ result.raised = (IF k > NumIncidenceChecks THEN "none" ELSE CallIncidenceCheck(k).raised)
            /\ result.warned = (\E j \in ran : CallIncidenceCheck(j).warned)

\* A table that carries an unexpected sex id (a warning of check_sex_ids) and
\* a negative draw (the later lower bound): the warning did not stop the
\* call, which raised at the bound.
C18_Witness_WarnedThenRaised ==
    /\ IsValidateIncidence
    /\ FirstRaising(1) = 12
    /\ CallIncidenceCheck(9).warned
    /\ result = [raised |-> "DataAbnormalError", warned |-> TRUE]

(***************************************************************************)
(* validate_raw_data: the caller's tables.                                 *)
(***************************************************************************)
IsValidateRawData == call.op = "validate_raw_data"

CallMatchingValidator ==
    LET a == call.held.additional_data
    IN  CASE call.measure = "incidence" ->
                validate_incidence(call.held.data, call.entity, call.location_id, a[1])
          [] call.measure = "prevalence" ->
                validate_prevalence(call.held.data, call.entity, call.location_id, a[1])
          [] call.measure = "deaths" ->
                validate_deaths(call.held.data, call.entity, call.location_id, a[1], a[2])
          [] call.measure = "exposure" ->
                validate_exposure(call.held.data, call.entity, call.location_id, a[1])
          [] call.measure = "relative_risk" ->
                validate_relative_risk(call.held.data, call.entity, call.location_id, a[1], a[2])
          [] call.measure = "population_attributable_fraction" ->
                validate_population_attributable_fraction(call.held.data, call.entity, call.location_id, a[1], a[2], a[3])
          [] call.measure = "etiology_population_attributable_fraction" ->
                validate_etiology_population_attributable_fraction(call.held.data, call.entity, call.location_id, a[1])
          [] call.measure = "mediation_factors" -> validate_mediation_factors

\* The outcomes the checker the table holds for the entity's kind can have.
CallMatchingCheckerOutcomes ==
    LET k == call.entity.kind
    IN  CASE k = "sequela" -> {check_sequela_metadata(call.entity, call.measure)}
          [] k = "cause" -> {check_cause_metadata(call.entity, call.measure)}
          [] k = "risk_factor" -> {check_risk_factor_metadata(call.entity, call.measure, o) : o \in NumpyOutcomes}
          [] k = "etiology" -> {check_etiology_metadata(call.entity, call.measure, o) : o \in NumpyOutcomes}
          [] k = "covariate" -> {check_covariate_metadata(call.entity, call.measure)}
          [] k = "health_technology" -> {check_health_technology_metadata(call.entity, call.measure)}
          [] k = "healthcare_entity" -> {check_healthcare_entity_metadata(call.entity, call.measure)}
          [] k \in NoMetadataKinds -> {Ok}

\* The measure names and entity kinds the two dispatch tables hold.
KnownMeasures ==
    {"incidence", "prevalence", "deaths", "exposure", "relative_risk", "population_attributable_fraction",
     "etiology_population_attributable_fraction", "mediation_factors"}

KnownKinds ==
    {"sequela", "cause", "risk_factor", "etiology", "covariate", "coverage_gap", "health_technology",
     "healthcare_entity", "population", "alternative_risk_factor"}

\* C21: validate_raw_data raises InvalidQueryError for every measure name
\* outside its validator table and check_metadata for every entity kind
\* outside its checker table, before any check runs (nothing is warned); for
\* a known name the outcome is that of the one matching routine on the
\* caller's arguments.
C21_DispatchersRejectUnknownNames ==
    /\ IsValidateRawData =>
            IF call.measure \in KnownMeasures THEN result = CallMatchingValidator
            ELSE result = Raise("InvalidQueryError")
    /\ IsCheckMetadata =>
            IF call.entity.kind \in KnownKinds THEN result \in CallMatchingCheckerOutcomes
            ELSE result = Raise("InvalidQueryError")

\* A metadata query for an entity of a kind no checker is registered for.
C21_Witness_UnknownKindRaised ==
    /\ IsCheckMetadata
    /\ call.entity.kind \notin KnownKinds
    /\ result = Raise("InvalidQueryError")

(***************************************************************************)
(* get_data: properties.                                                   *)
(***************************************************************************)
IsGetData == call.op = "get_data"

\* The measures of the handler table with the kinds each is served for.
MeasureKinds ==
    LET cause_like == {"incidence", "raw_incidence", "prevalence", "birth_prevalence", "disability_weight"}
        cause_only == {"remission", "cause_specific_mortality", "excess_mortality", "case_fatality", "deaths"}
        population == {"structure", "theoretical_minimum_risk_life_expectancy", "age_bins", "demographic_dimensions"}
    IN  (cause_like \X {"cause", "sequela"}) \cup (cause_only \X {"cause"}) \cup (population \X {"population"})
            \cup ({"exposure"} \X {"risk_factor", "coverage_gap", "alternative_risk_factor"})
            \cup ({"exposure_standard_deviation", "exposure_distribution_weights"} \X {"risk_factor", "alternative_risk_factor"})
            \cup ({"relative_risk"} \X {"risk_factor", "coverage_gap"})
            \cup ({"population_attributable_fraction"} \X {"risk_factor", "etiology"})
            \cup ({"mediation_factors"} \X {"risk_factor"})
            \cup ({"estimate"} \X {"covariate"})
            \cup ({"cost"} \X {"healthcare_entity", "health_technology"})
            \cup ({"utilization"} \X {"healthcare_entity"})

\* The call asks for a measure without a handler or for a kind the measure
\* is not served for.
CallIsInvalidQuery == <<call.measure, call.entity.kind>> \notin MeasureKinds

\* C22: get_data raises InvalidQueryError, before any data is extracted or
\* reshaped (and before the location is looked up), when the measure has no
\* handler or entity.kind is not among the kinds allowed for the measure.
C22_GetDataRejectsInvalidQuery ==
    (IsGetData /\ CallIsInvalidQuery) =>
        /\ ~call.located /\ ~call.extracted /\ call.reshaped = "none"
        /\ call.pc \in {"measure", "kind", "done"}
        /\ call.pc = "done" => result = Raise("InvalidQueryError")

\* Exposure was requested for a cause: the call is over, rejected.
C22_Witness_ExposureOfCauseRejected ==
    /\ IsGetData
    /\ call.measure = "exposure"
    /\ call.entity.kind = "cause"
    /\ call.pc = "done"
    /\ result = Raise("InvalidQueryError")
    /\ ~call.extracted

(***************************************************************************)
(* The legacy ArtifactBuilder.process: properties.                         *)
(***************************************************************************)
\* The jobs whose worker is inside _dump.
JobsInDump == {j \in Jobs : call.jobs[j] = "dump"}

\* At most one worker is inside _dump, and it is the one holding the lock.
WritesAreExclusive ==
    IsProcess =>
        /\ Cardinality(JobsInDump) <= 1
        /\ \A j \in JobsInDump : call.lock = j

\* C23: writes of workers to the shared output file are mutually exclusive,
\* at most one worker being inside _dump at any time, and the lock is
\* released after every write, also when the write raises: a worker that
\* holds the lock gives it up.
C23_WritesExclusiveLockReleased ==
    /\ []WritesAreExclusive
    /\ \A j \in Jobs : (IsProcess /\ call.lock = j) ~> (IsProcess /\ call.lock = Unlocked)

\* A write raised and the lock is free again while another worker waits for it.
C23_Witness_LockFreeAfterFailedWrite ==
    /\ IsProcess
    /\ call.parallelism > 1
    /\ call.lock = Unlocked
    /\ \E j \in Jobs : call.jobs[j] = "failed"
    /\ \E j \in Jobs : call.jobs[j] = "acquire"

(***************************************************************************)
(* validate_disability_weight: properties.                                 *)
(***************************************************************************)
IsValidateDisabilityWeight == call.op = "validate_disability_weight"

\* C24: validate_disability_weight raises DataAbnormalError unless the
\* data's age_group_id set is exactly the single all-ages id and its sex_id
\* set is exactly the single combined id (for a table whose values exist).
C24_DisabilityWeightAllAgesCombinedSex ==
    (/\ IsValidateDisabilityWeight
     /\ AllNumbers(call.data.rows)
     /\ \/ {r.age_group_id : r \in call.data.rows} # {22}
        \/ {r.sex_id : r \in call.data.rows} # {Combined})
        => result.raised = "DataAbnormalError"

\* The exemption: a YLL PAF with no mortality-only relative risk of the cause.
CallPafIsExempt == CallPafMeasure = MEASURES.YLLs /\ CallPafRelativeRisk = {}

\* C25: check_paf_rr_exposure_age_groups raises DataAbnormalError whenever
\* the PAF rows of one cause and measure hold an age group outside that
\* cause's restriction age range for the measure, also when the PAF rows do
\* not cover the whole range; the only exemption is a YLL PAF with no
\* mortality-only relative risk.  Stated for a cause with a restriction
\* range and relative-risk rows that count for the measure.
C25_PafOutsideRestrictionsRaises ==
    (/\ IsCheckPafRrExposureAgeGroups
     /\ CallPafCauseRange # {}
     /\ CallPafCoveredAges # {}
     /\ ~CallPafIsExempt
     /\ CallPafAges \ CallPafCauseRange # {})
        => result.raised = "DataAbnormalError"

(***************************************************************************)
(* validate_exposure_standard_deviation: properties.                       *)
(***************************************************************************)
IsValidateExposureSd == call.op = "validate_exposure_standard_deviation"

\* The table of the call is empty, holds a missing or an infinite value, or
\* is all zero in its value columns.
CallDataIsMissing ==
    \/ call.data.rows = {}
    \/ ~AllNumbers(call.data.rows)
    \/ \A r \in call.data.rows : ~RowHasNonZero(r)

\* C26: every measure validator runs the data-existence check before any
\* other check, so a table that is empty, holds a NaN or infinite value, or
\* is all zero in its value columns is rejected with DataDoesNotExistError,
\* whatever else is wrong with its columns, ids or bounds.
C26_MissingDataRejectedFirst ==
    (IsValidateExposureSd /\ CallDataIsMissing) => result.raised = "DataDoesNotExistError"

(***************************************************************************)
(* validate_relative_risk: flags of multi-cause tables.                    *)
(***************************************************************************)
CallCauseIds == {r.cause_id : r \in call.data.rows}

\* The rows of each affected cause satisfy the flag rules for that cause.
CallFlagsValidPerCause ==
    \A c_id \in CallCauseIds :
        check_mort_morb_flags({r \in call.data.rows : r.cause_id = c_id},
                              cause_by_id(c_id).restrictions.yld_only,
                              cause_by_id(c_id).restrictions.yll_only) = Ok

\* Causes and flags apart, the call's table is the well-formed one, and the
\* entity has no sex restriction.
CallWellFormedButForFlags ==
    /\ call.data.columns = RRColumns
    /\ {[r EXCEPT !.cause_id = 1, !.morbidity = 1, !.mortality = 1] : r \in call.data.rows}
            = RRTable(BaseShape).rows
    /\ ~call.entity.restrictions.male_only
    /\ ~call.entity.restrictions.female_only

\* C27: in validate_relative_risk the mortality/morbidity flag rules are
\* applied per affected cause, to that cause's rows only: a multi-cause table
\* in which each cause's own rows satisfy the flag rules for that cause's
\* restrictions passes the flag validation (and, being well formed
\* otherwise, the whole validation), whatever flags the other causes' rows
\* carry.
C27_FlagRulesPerAffectedCause ==
    (IsValidateRelativeRisk /\ CallWellFormedButForFlags /\ CallFlagsValidPerCause) =>
        /\ check_flags_of_affected_causes(call.data.rows) = Ok
        /\ result.raised = "none"

\* C28: when the entity has no age restriction (the start id is absent, so
\* the expected age set is empty) check_age_restrictions enforces nothing:
\* called with error=True it raises no error for any non-empty table whose
\* value columns hold non-missing, finite values.
C28_NoAgeRestrictionEnforcesNothing ==
    (/\ IsCheckAgeRestrictions
     /\ call.age_group_id_start = None
     /\ call.error
     /\ call.data # {}
     /\ AllNumbers(call.data)) => result.raised = "none"

(***************************************************************************)
(* ArtifactBuilder: properties.                                            *)
(***************************************************************************)
\* No call of the builder is in progress.
BuilderAtRest == IsBuilder /\ call.pc = "ready"

\* processed_entities holds exactly the pairs with a _worker run that
\* completed without raising.
ProcessedAreCompleted ==
    call.processed_entities = {p \in BuilderPairs : call.runs[p] > call.failed[p]}

\* A step of load that starts _worker is taken for a key the artifact lacks.
LoadStartsWorkerForAbsentKey ==
    (/\ IsBuilder
     /\ call.pc = "ready"
     /\ call'.op = "ArtifactBuilder"
     /\ call'.pc = "worker"
     /\ call'.entry = "load") => call'.key \notin call.artifact

\* A step that starts _worker is taken for a pair all of whose earlier runs
\* raised.
WorkerStartsAfterFailedRunsOnly ==
    (/\ IsBuilder
     /\ call.pc = "ready"
     /\ call'.op = "ArtifactBuilder"
     /\ call'.pc = "worker") => call.runs[KeyPair(call'.key)] = call.failed[KeyPair(call'.key)]

\* C29: after start_processing and any sequence of load and process calls
\* the loader worker has run at most once for each (type, name) pair, and
\* processed_entities holds exactly the pairs whose worker run completed
\* without raising; load runs the worker only when the requested key is
\* absent from the artifact.
C29_WorkerRunsAtMostOnce ==
    /\ [](BuilderAtRest => /\ \A p \in BuilderPairs : call.runs[p] <= 1
                           /\ ProcessedAreCompleted)
    /\ [][LoadStartsWorkerForAbsentKey]_vars

\* C29, amended: the loader worker has completed at most once for each
\* pair and is run again for a pair only after runs that raised, and
\* processed_entities holds exactly the pairs whose worker run completed
\* without raising; load runs the worker only when the requested key is
\* absent from the artifact.
C29_WorkerCompletesAtMostOnce ==
    /\ [](BuilderAtRest => /\ \A p \in BuilderPairs : call.runs[p] - call.failed[p] <= 1
                           /\ ProcessedAreCompleted)
    /\ [][WorkerStartsAfterFailedRunsOnly]_vars
    /\ [][LoadStartsWorkerForAbsentKey]_vars

\* A pair whose worker raised once and then completed.
C29_Witness_CompletedAfterFailedRun ==
    /\ BuilderAtRest
    /\ \E p \in BuilderPairs :
            /\ call.runs[p] = 2
            /\ call.failed[p] = 1
            /\ p \in call.processed_entities

(***************************************************************************)
(* Simulation-side sex restrictions: properties.                           *)
(***************************************************************************)
IsSimCheckSexRestrictions == call.op = "_check_sex_restrictions"

\* Some row of the given sex holds a value other than the fill value.
CallSexDiffersFromFill(sex) ==
    \E r \in call.data : r.sex = sex /\ r.value # call.fill_value

====
